---- MODULE Spec2Model ----
(***************************************************************************)
(* Model of the YouTube RAG Assistant browser extension:                   *)
(*   - the coordinator (background.js, class RAGBackgroundService):        *)
(*     message dispatch, backend requests, togglePanel delivery with its   *)
(*     retry, content-script injection, the injectedTabs membership set;   *)
(*   - the content script (class YouTubeRAGAssistant): the streaming turn  *)
(*     of sendMessage, its event-stream read loop and the in-flight flag.  *)
(* The two parts share no memory in the program; each has a specification  *)
(* of its own here (Spec / FairSpec for the coordinator, StreamSpec for    *)
(* the content script) over its own variables.                             *)
(***************************************************************************)
EXTENDS Integers, Sequences, FiniteSets, TLC

\* ------------------------------------------------------------------------
\* Bounds of the model
\* ------------------------------------------------------------------------
NumTabs == 1
MaxEnv == 1
MaxEvents == 3
MaxHistory == 2

Tabs == 1..NumTabs
Slots == 1..MaxEnv
\* sender.tab is undefined for the popup: no tab identifier
Popup == 0

VARIABLES
    \* coordinator (RAGBackgroundService fields)
    injectedTabs, backendUrl, isBackendConnected,
    \* chrome.storage.sync, keys of the settings record that were written
    syncStore,
    \* per tab: the page and the content-script world living in it
    tab,
    \* message envelopes received by the coordinator's onMessage listener
    env,
    \* the toggleChatPanel call an envelope started
    tog,
    \* handleYouTubePageLoad calls started by tabs.onUpdated, per tab
    upd,
    \* the constructor's / the interval's health check
    health,
    \* handleTabActivation calls started by tabs.onActivated, per tab
    act,
    \* history: the checkBackendConnection call that was started last and how
    \* it settled
    lastCheck,
    \* the popup (RAGPopupController): this.settings and its toggleSetting call
    popup,
    \* the video id in window.location of the content script's page (NoVideo:
    \* not a watch page)
    location,
    \* content script (YouTubeRAGAssistant fields)
    currentVideoId, conversationHistory, isProcessing,
    \* children of #rag-messages
    messages,
    \* the sendMessage call in progress: its locals and what it has rendered
    turn,
    \* the processCurrentVideo call in progress
    proc,
    \* backend requests of the content script that were started and have not settled
    inflight,
    \* the interaction of the content script has run to its end
    finished,
    \* a call of sendMessage / processCurrentVideo returned at the isProcessing guard
    ignoredCall,
    \* localStorage of the page's origin: per key, <<>> when the key is absent,
    \* otherwise <<the stored history>>
    localStore,
    \* this.chatPanel is set and #rag-chat-panel is in the document
    chatPanel,
    \* history: refreshConversation threw entries away and nothing has been
    \* saved or loaded since
    discarded

auxVars == <<act, lastCheck, popup, location>>

\* the coordinator and the popup without the page's location
coordOnly == <<injectedTabs, backendUrl, isBackendConnected, syncStore, tab,
               env, tog, upd, health, act, lastCheck, popup>>

coordVars == <<injectedTabs, backendUrl, isBackendConnected, syncStore, tab,
               env, tog, upd, health, auxVars>>

historyVars == <<localStore, chatPanel, discarded>>

contentVars == <<currentVideoId, conversationHistory, isProcessing, messages,
                 turn, proc, inflight, finished, ignoredCall, historyVars>>

\* ------------------------------------------------------------------------
\* Values
\* ------------------------------------------------------------------------
DefaultUrl == "http://localhost:8000"
AltUrl == "http://backend.example:9000"

CoordinatorActions ==
    {"checkBackendConnection", "processVideo", "askQuestion", "getVideoInfo",
     "togglePanel", "getSettings", "updateSettings",
     "getConversationHistory", "clearConversationHistory"}
\* an action name outside the switch of handleMessage
UnknownAction == "noSuchAction"
Actions == CoordinatorActions \cup {UnknownAction}

BackendActions == {"processVideo", "askQuestion", "getVideoInfo"}

\* outcomes of fetch inside makeRequest
FetchOutcomes == {"ok", "httpError", "networkError", "timeout"}

\* request.settings of an updateSettings envelope
SettingsPayloads ==
    { [darkMode |-> TRUE], [backendUrl |-> AltUrl] }

NoSettings == [none |-> TRUE]
NoResp == [none |-> TRUE]

\* ------------------------------------------------------------------------
\* The page of a tab and the content script in it
\* ------------------------------------------------------------------------
\* scriptable : chrome.scripting.executeScript / insertCSS succeed on the tab
\* watch      : the tab's URL contains youtube.com/watch
\* loaded     : window.YouTubeRAGAssistantLoaded is set in the script world
\* listeners  : live chrome.runtime.onMessage listeners of content scripts
\* panels     : elements with id rag-chat-panel in the document
\* visible    : the panel is shown (style.visibility / opacity)
\* css        : styles.css was inserted
FreshPage == [scriptable |-> TRUE, watch |-> TRUE, loaded |-> FALSE,
              listeners |-> 0, panels |-> 0, visible |-> FALSE, css |-> FALSE]
\* content script running, panel shown
LivePage == [FreshPage EXCEPT !.loaded = TRUE, !.listeners = 1, !.panels = 1,
                              !.visible = TRUE, !.css = TRUE]
\* content script running, panel removed by its Close Panel button
ClosedPanelPage == [LivePage EXCEPT !.panels = 0, !.visible = FALSE]
\* the panel of a content script whose extension context is gone (the
\* extension was reloaded): the node stays in the document, no listener is left
OrphanPage == [FreshPage EXCEPT !.panels = 1, !.visible = TRUE, !.css = TRUE]
\* a page scripts cannot be injected into (no host permission, tab gone)
BlockedPage == [FreshPage EXCEPT !.scriptable = FALSE, !.watch = FALSE]
\* a watch URL whose document is the browser's error page: executeScript and
\* insertCSS are rejected
ErrorPage == [FreshPage EXCEPT !.scriptable = FALSE]

InitialPages == {FreshPage, LivePage, ClosedPanelPage, OrphanPage, BlockedPage}

\* a createChatPanel that appends without removing
createChatPanelAppendOnly(p) == [p EXCEPT !.panels = p.panels + 1, !.visible = TRUE]

\* createChatPanel: an existing #rag-chat-panel is removed, a new one appended
\* and shown.
createChatPanel(p) ==
    [p EXCEPT !.panels = (IF p.panels > 0 THEN p.panels - 1 ELSE 0) + 1,
              !.visible = TRUE]

\* a content script without the YouTubeRAGAssistantLoaded guard
RunContentScriptUnguarded(p) ==
    [createChatPanel(p) EXCEPT !.loaded = TRUE, !.listeners = p.listeners + 1]

\* content.js executed in the tab: the YouTubeRAGAssistantLoaded guard, then
\* new YouTubeRAGAssistant() -> init -> setup: createChatPanel and
\* setupMessageListener on every path of setup.
RunContentScript(p) ==
    IF p.loaded THEN p
    ELSE [createChatPanel(p) EXCEPT !.loaded = TRUE, !.listeners = p.listeners + 1]

\* the content script's togglePanel: create the panel when it is missing,
\* otherwise flip its visibility.
ContentTogglePanel(p) ==
    IF p.panels = 0 THEN createChatPanel(p)
    ELSE [p EXCEPT !.visible = ~p.visible]

\* chrome.tabs.sendMessage reaches a listener or sets chrome.runtime.lastError
HasReceiver(p) == p.listeners > 0

\* ------------------------------------------------------------------------
\* handleYouTubePageLoad, one step per await
\* ------------------------------------------------------------------------
\* h is the position inside the call: "probe" (executeScript of the
\* getElementById probe is pending), "inject" (executeScript of content.js is
\* pending), "css" (insertCSS is pending), "ret" (the call has returned; every
\* exception is caught inside).  The result is the new position and page.
\* (a procedure that inserts the stylesheet before the script)
HyplStepStyleFirst(h, p) ==
    CASE h = "probe" ->
            IF ~p.scriptable THEN [h |-> "ret", page |-> p]
            ELSE IF p.panels > 0 THEN [h |-> "ret", page |-> p]
            ELSE [h |-> "css", page |-> p]
      [] h = "css" ->
            IF ~p.scriptable THEN [h |-> "ret", page |-> p]
            ELSE [h |-> "inject", page |-> [p EXCEPT !.css = TRUE]]
      [] h = "inject" ->
            IF ~p.scriptable THEN [h |-> "ret", page |-> p]
            ELSE [h |-> "ret", page |-> RunContentScript(p)]
      [] OTHER -> [h |-> "ret", page |-> p]

HyplStep(h, p) ==
    CASE h = "probe" ->
            IF ~p.scriptable THEN [h |-> "ret", page |-> p]
            ELSE IF p.panels > 0 THEN [h |-> "ret", page |-> p]
            ELSE [h |-> "inject", page |-> p]
      [] h = "inject" ->
            IF ~p.scriptable THEN [h |-> "ret", page |-> p]
            ELSE [h |-> "css", page |-> RunContentScript(p)]
      [] h = "css" ->
            IF ~p.scriptable THEN [h |-> "ret", page |-> p]
            ELSE [h |-> "ret", page |-> [p EXCEPT !.css = TRUE]]
      [] OTHER -> [h |-> "ret", page |-> p]

\* a whole call of handleYouTubePageLoad with nothing else happening in the
\* tab between its awaits
HyplRun(p) ==
    LET a == HyplStep("probe", p)
        b == HyplStep(a.h, a.page)
        c == HyplStep(b.h, b.page)
    IN c.page

\* the Close Panel button of the panel: this.chatPanel.remove()
ClosePanelClick(p) ==
    [p EXCEPT !.panels = p.panels - 1, !.visible = FALSE]

\* ------------------------------------------------------------------------
\* Backend transport of the coordinator
\* ------------------------------------------------------------------------
\* (a makeRequest that rethrows the AbortError like any rejection of fetch
\* and clears the timer in the try block only)
makeRequestRethrows(outcome) ==
    CASE outcome = "ok" -> [ok |-> TRUE, error |-> "", timerCleared |-> TRUE]
      [] outcome = "httpError" ->
            [ok |-> FALSE, error |-> "HTTP 500", timerCleared |-> TRUE]
      [] OTHER -> [ok |-> FALSE, error |-> "Failed to fetch", timerCleared |-> FALSE]

\* makeRequest: the parsed body on a 2xx answer; otherwise it throws, with
\* 'Request timed out' when the AbortController fired.  timerCleared:
\* clearTimeout(id) ran on the path taken, after the await of fetch (2xx and
\* non-2xx answers) or in the catch block (fetch rejected, non-2xx again).
makeRequest(outcome) ==
    CASE outcome = "ok" -> [ok |-> TRUE, error |-> "", timerCleared |-> TRUE]
      [] outcome = "httpError" ->
            [ok |-> FALSE, error |-> "HTTP 500", timerCleared |-> TRUE]
      [] outcome = "timeout" ->
            [ok |-> FALSE, error |-> "Request timed out", timerCleared |-> TRUE]
      [] OTHER -> [ok |-> FALSE, error |-> "Failed to fetch", timerCleared |-> TRUE]

\* processVideo / askQuestion / getVideoInfo once fetch has settled
BackendResult(outcome) ==
    IF makeRequest(outcome).ok
    THEN [success |-> TRUE, data |-> "result"]
    ELSE [success |-> FALSE, error |-> makeRequest(outcome).error]

\* the same three methods when isBackendConnected is false: the throw is
\* caught in the method itself
NotConnectedResult == [success |-> FALSE, error |-> "Backend not connected"]

\* ------------------------------------------------------------------------
\* Settings store (chrome.storage.sync)
\* ------------------------------------------------------------------------
EmptyStore == [k \in {} |-> TRUE]

HasKey(store, k) == k \in DOMAIN store

\* a getSettings that answers with the defaults whatever is stored
GetSettingsDefaults(store) ==
    [darkMode |-> FALSE, autoProcess |-> FALSE, showSources |-> TRUE,
     backendUrl |-> DefaultUrl, language |-> "en"]

\* getSettings: result.x || default (a missing key, false and the empty
\* string all give the default), showSources: result.showSources !== false
GetSettingsData(store) ==
    [darkMode |-> HasKey(store, "darkMode") /\ store["darkMode"],
     autoProcess |-> HasKey(store, "autoProcess") /\ store["autoProcess"],
     showSources |-> ~(HasKey(store, "showSources") /\ store["showSources"] = FALSE),
     backendUrl |-> IF HasKey(store, "backendUrl") /\ store["backendUrl"] # ""
                    THEN store["backendUrl"] ELSE DefaultUrl,
     language |-> IF HasKey(store, "language") /\ store["language"] # ""
                  THEN store["language"] ELSE "en"]

\* if (settings.backendUrl)
HasBackendUrl(settings) == HasKey(settings, "backendUrl") /\ settings["backendUrl"] # ""

\* ------------------------------------------------------------------------
\* Who started a checkBackendConnection
\* ------------------------------------------------------------------------
\* the constructor and the 30 s interval
CheckOfTimer == 0
\* the checkBackendConnection / updateSettings case of envelope e
CheckOfEnvelope(e) == e
\* handleTabActivation of tab t
CheckOfActivation(t) == 0 - t

\* a checkBackendConnection is started by src
StartCheck(src) == [src |-> src, ok |-> "pending"]

\* the check of src settles: it is the last one started, or an older one
SettleCheck(lc, src, connected) ==
    IF lc.src = src THEN [lc EXCEPT !.ok = IF connected THEN "ok" ELSE "failed"]
    ELSE lc

\* ------------------------------------------------------------------------
\* The popup
\* ------------------------------------------------------------------------
\* constructor of RAGPopupController; no toggleSetting call is running
\* pc: "idle"     no toggleSetting call is running
\*     "sent"     the call awaits chrome.runtime.sendMessage, the coordinator
\*                has the message in envelope slot
\*     "rejected" the call awaits a sendMessage that will reject (no
\*                receiving end)
PopupClosed ==
    [settings |-> [darkMode |-> FALSE, autoProcess |-> FALSE, showSources |-> TRUE],
     pc |-> "idle", key |-> "", slot |-> 0]

\* the three settings the popup has toggles for
PopupKeys == {"darkMode", "autoProcess", "showSources"}

\* ------------------------------------------------------------------------
\* Envelopes
\* ------------------------------------------------------------------------
\* pc: "none"    the slot holds no envelope yet
\*     "health"  checkBackendConnection awaits its fetch
\*     "fetch"   a backend method awaits its fetch
\*     "storage" a chrome.storage callback is pending
\*     "recheck" updateSettings awaits the health check of the new backendUrl
\*     "query"   the chrome.tabs.query callback is pending
\*     "done"    handleMessage and its callbacks have run to their end
\* calls: how many times sendResponse was invoked for the envelope
\* resp : the response the sender received (the first one sent on an open channel)
\* open : the message channel is still open
NoEnvelope == [action |-> "", sender |-> Popup, settings |-> NoSettings,
               pc |-> "none", calls |-> 0, resp |-> NoResp, open |-> FALSE]

NoToggle == [pc |-> "none", tabId |-> 0, h |-> "ret", firstFailed |-> FALSE,
             retryFailed |-> FALSE, ensureLoads |-> 0, reinjects |-> 0,
             sends |-> 0, retries |-> 0]

\* a listener that does not return true
ChannelNotKept == FALSE

\* the listener's return value: true keeps the channel open for an
\* asynchronous sendResponse
KeepChannelOpen == TRUE

\* sendResponse(r)
sendResponse(er, r) ==
    [er EXCEPT !.calls = @ + 1,
               !.resp = IF er.open /\ er.resp = NoResp THEN r ELSE @]

\* the listener returns: the channel stays open only if it returned true or
\* the response was already sent
ListenerReturns(er) == [er EXCEPT !.open = KeepChannelOpen]

NewEnvelope(a, s, st) ==
    [action |-> a, sender |-> s, settings |-> st, pc |-> "none", calls |-> 0,
     resp |-> NoResp, open |-> TRUE]

\* A slot takes a new envelope when it holds none, or when the envelope it
\* holds and the toggleChatPanel call of that envelope have run to their end.
FreeSlot(e) ==
    /\ env[e].pc \in {"none", "done"}
    /\ tog[e].pc \in {"none", "done"}

\* a default case that returns without calling sendResponse
DefaultCaseNoAnswer(er) == [er EXCEPT !.pc = "done"]

\* handleMessage, default case
DefaultCase(er) == [sendResponse(er, [error |-> "Unknown action"]) EXCEPT !.pc = "done"]

\* toggleChatPanel up to its first await: ensureContentScriptInjected has
\* issued the executeScript probe of window.YouTubeRAGAssistantInitialized
StartToggle(t) == [NoToggle EXCEPT !.pc = "ensure", !.tabId = t]

\* handleMessage, togglePanel case with a sender tab: toggleChatPanel is
\* started and not awaited, sendResponse({success: true}) follows at once
TogglePanelResponse(er) == [sendResponse(er, [success |-> TRUE]) EXCEPT !.pc = "done"]

\* ---- the listener and the synchronous part of handleMessage ----
RecvCheckBackend(e, s) ==
    /\ FreeSlot(e)
    /\ env' = [env EXCEPT ![e] = ListenerReturns(
                 [NewEnvelope("checkBackendConnection", s, NoSettings) EXCEPT !.pc = "health"])]
    /\ tog' = [tog EXCEPT ![e] = NoToggle]
    /\ lastCheck' = StartCheck(CheckOfEnvelope(e))
    /\ UNCHANGED <<injectedTabs, backendUrl, isBackendConnected, syncStore, tab, upd, health, act, popup, location, contentVars>>

RecvBackendAction(e, a, s) ==
    /\ FreeSlot(e)
    /\ a \in BackendActions
    /\ env' = [env EXCEPT ![e] = ListenerReturns(
                 IF ~isBackendConnected
                 THEN [sendResponse(NewEnvelope(a, s, NoSettings), NotConnectedResult)
                         EXCEPT !.pc = "done"]
                 ELSE [NewEnvelope(a, s, NoSettings) EXCEPT !.pc = "fetch"])]
    /\ tog' = [tog EXCEPT ![e] = NoToggle]
    /\ UNCHANGED <<injectedTabs, backendUrl, isBackendConnected, syncStore, tab, upd, health, auxVars, contentVars>>

RecvTogglePanel(e, s) ==
    /\ FreeSlot(e)
    /\ IF s # Popup
       THEN /\ env' = [env EXCEPT ![e] = ListenerReturns(
                         TogglePanelResponse(NewEnvelope("togglePanel", s, NoSettings)))]
            /\ tog' = [tog EXCEPT ![e] = StartToggle(s)]
       ELSE /\ env' = [env EXCEPT ![e] = ListenerReturns(
                         [NewEnvelope("togglePanel", s, NoSettings) EXCEPT !.pc = "query"])]
            /\ tog' = [tog EXCEPT ![e] = NoToggle]
    /\ UNCHANGED <<injectedTabs, backendUrl, isBackendConnected, syncStore, tab, upd, health, auxVars, contentVars>>

RecvStorageAction(e, a, s, st) ==
    /\ FreeSlot(e)
    /\ a \in {"getSettings", "updateSettings", "getConversationHistory",
              "clearConversationHistory"}
    /\ (a = "updateSettings") = (st # NoSettings)
    /\ env' = [env EXCEPT ![e] = ListenerReturns(
                 [NewEnvelope(a, s, st) EXCEPT !.pc = "storage"])]
    /\ tog' = [tog EXCEPT ![e] = NoToggle]
    /\ UNCHANGED <<injectedTabs, backendUrl, isBackendConnected, syncStore, tab, upd, health, auxVars, contentVars>>

RecvUnknown(e, s) ==
    /\ FreeSlot(e)
    /\ env' = [env EXCEPT ![e] = ListenerReturns(
                 DefaultCase(NewEnvelope(UnknownAction, s, NoSettings)))]
    /\ tog' = [tog EXCEPT ![e] = NoToggle]
    /\ UNCHANGED <<injectedTabs, backendUrl, isBackendConnected, syncStore, tab, upd, health, auxVars, contentVars>>

\* a request that is null: the switch on request.action throws
NullRequest == "null"

\* error.message of what handleMessage can throw: the TypeError of reading
\* request.action of a null request, the TypeError of chrome.storage.sync.set
\* called without an items object
ThrownMessage(a) ==
    IF a = NullRequest THEN "Cannot read properties of null"
    ELSE "Error in invocation of storage.set"

\* a catch block that only logs
CatchLogsOnly(er, msg) == [er EXCEPT !.pc = "done"]

\* handleMessage, catch block: sendResponse({error: error.message})
CatchBlock(er, msg) == [sendResponse(er, [error |-> msg]) EXCEPT !.pc = "done"]

\* a null request: request.action throws before the first await, the catch
\* block runs before the listener returns
RecvNullRequest(e, s) ==
    /\ FreeSlot(e)
    /\ env' = [env EXCEPT ![e] = ListenerReturns(
                 CatchBlock(NewEnvelope(NullRequest, s, NoSettings),
                            ThrownMessage(NullRequest)))]
    /\ tog' = [tog EXCEPT ![e] = NoToggle]
    /\ UNCHANGED <<injectedTabs, backendUrl, isBackendConnected, syncStore, tab, upd, health, auxVars, contentVars>>

\* updateSettings without request.settings: chrome.storage.sync.set throws in
\* the promise executor, the await in handleMessage rethrows once the
\* listener has returned, the catch block answers
RecvSettingsMissing(e, s) ==
    /\ FreeSlot(e)
    /\ env' = [env EXCEPT ![e] =
                 CatchBlock(ListenerReturns(NewEnvelope("updateSettings", s, NoSettings)),
                            ThrownMessage("updateSettings"))]
    /\ tog' = [tog EXCEPT ![e] = NoToggle]
    /\ UNCHANGED <<injectedTabs, backendUrl, isBackendConnected, syncStore, tab, upd, health, auxVars, contentVars>>

\* ---- continuations of handleMessage ----
\* checkBackendConnection: the value stored in isBackendConnected and returned
checkBackendConnection(outcome) == makeRequest(outcome).ok

\* case 'checkBackendConnection': the awaited health check settles
EnvHealthReturns(e, outcome) ==
    /\ env[e].pc = "health"
    /\ isBackendConnected' = checkBackendConnection(outcome)
    /\ env' = [env EXCEPT ![e] =
                 [sendResponse(env[e], [connected |-> checkBackendConnection(outcome)])
                    EXCEPT !.pc = "done"]]
    /\ lastCheck' = SettleCheck(lastCheck, CheckOfEnvelope(e), checkBackendConnection(outcome))
    /\ UNCHANGED <<injectedTabs, backendUrl, syncStore, tab, tog, upd, health, act, popup, location, contentVars>>

\* cases 'processVideo', 'askQuestion', 'getVideoInfo': fetch settles
EnvFetchReturns(e, outcome) ==
    /\ env[e].pc = "fetch"
    /\ env' = [env EXCEPT ![e] =
                 [sendResponse(env[e], BackendResult(outcome)) EXCEPT !.pc = "done"]]
    /\ UNCHANGED <<injectedTabs, backendUrl, isBackendConnected, syncStore, tab, tog, upd, health, auxVars, contentVars>>

\* the response of a storage-backed action once its callback has run
StorageResponse(a, store) ==
    CASE a = "getSettings" -> [success |-> TRUE, data |-> GetSettingsData(store)]
      [] a = "getConversationHistory" -> [success |-> TRUE, data |-> <<>>]
      [] OTHER -> [success |-> TRUE]

\* the chrome.storage callback of getSettings, getConversationHistory and
\* clearConversationHistory; of updateSettings without a backendUrl
EnvStorageCallback(e) ==
    /\ env[e].pc = "storage"
    /\ ~(env[e].action = "updateSettings" /\ HasBackendUrl(env[e].settings))
    /\ syncStore' = IF env[e].action = "updateSettings"
                    THEN env[e].settings @@ syncStore ELSE syncStore
    /\ env' = [env EXCEPT ![e] =
                 [sendResponse(env[e], StorageResponse(env[e].action, syncStore))
                    EXCEPT !.pc = "done"]]
    /\ UNCHANGED <<injectedTabs, backendUrl, isBackendConnected, tab, tog, upd, health, auxVars, contentVars>>

\* updateSettings with a backendUrl: the callback of chrome.storage.sync.set
\* stores the URL in this.backendUrl and awaits checkBackendConnection
EnvSettingsUrlCallback(e) ==
    /\ env[e].pc = "storage"
    /\ env[e].action = "updateSettings" /\ HasBackendUrl(env[e].settings)
    /\ syncStore' = env[e].settings @@ syncStore
    /\ backendUrl' = env[e].settings["backendUrl"]
    /\ env' = [env EXCEPT ![e].pc = "recheck"]
    /\ lastCheck' = StartCheck(CheckOfEnvelope(e))
    /\ UNCHANGED <<injectedTabs, isBackendConnected, tab, tog, upd, health, act, popup, location, contentVars>>

\* ... and that health check settles: resolve, then sendResponse({success: true})
EnvRecheckReturns(e, outcome) ==
    /\ env[e].pc = "recheck"
    /\ isBackendConnected' = checkBackendConnection(outcome)
    /\ env' = [env EXCEPT ![e] =
                 [sendResponse(env[e], [success |-> TRUE]) EXCEPT !.pc = "done"]]
    /\ lastCheck' = SettleCheck(lastCheck, CheckOfEnvelope(e), checkBackendConnection(outcome))
    /\ UNCHANGED <<injectedTabs, backendUrl, syncStore, tab, tog, upd, health, act, popup, location, contentVars>>

\* a callback that reports success when no tab is active
NoActiveTabSuccess(er) == [sendResponse(er, [success |-> TRUE]) EXCEPT !.pc = "done"]

\* case 'togglePanel' without a sender tab: the chrome.tabs.query callback.
\* a is the active tab of the current window, 0 when there is none.
NoActiveTabResponse(er) ==
    [sendResponse(er, [success |-> FALSE, error |-> "No active tab found"])
       EXCEPT !.pc = "done"]

EnvTabsQueryCallback(e, a) ==
    /\ env[e].pc = "query"
    /\ IF a # 0
       THEN /\ tog' = [tog EXCEPT ![e] = StartToggle(a)]
            /\ env' = [env EXCEPT ![e] = TogglePanelResponse(env[e])]
       ELSE /\ tog' = tog
            /\ env' = [env EXCEPT ![e] = NoActiveTabResponse(env[e])]
    /\ UNCHANGED <<injectedTabs, backendUrl, isBackendConnected, syncStore, tab, upd, health, auxVars, contentVars>>

\* ------------------------------------------------------------------------
\* toggleChatPanel
\* ------------------------------------------------------------------------
\* pc: "ensure"     ensureContentScriptInjected awaits its executeScript probe
\*     "ensureLoad" ensureContentScriptInjected awaits handleYouTubePageLoad
\*     "sent"       the first chrome.tabs.sendMessage awaits its callback
\*     "reinject"   handleYouTubePageLoad after the failed delivery
\*     "delay"      the setTimeout(500) before the retry
\*     "resent"     the retried chrome.tabs.sendMessage awaits its callback
\*     "done"       nothing of the call is pending

\* the probe of ensureContentScriptInjected: !!window.YouTubeRAGAssistantInitialized.
\* The content script sets YouTubeRAGAssistantLoaded and this.isInitialized;
\* nothing sets window.YouTubeRAGAssistantInitialized.
ProbeInitialized(p) == FALSE

\* chrome.tabs.sendMessage(tabId, {action: 'togglePanel'}, callback)
SendToggle(tg) == [tg EXCEPT !.pc = "sent", !.sends = @ + 1]

ToggleEnsureProbe(e) ==
    /\ tog[e].pc = "ensure"
    /\ tog' = [tog EXCEPT ![e] =
                 IF ~tab[tog[e].tabId].scriptable THEN SendToggle(tog[e])
                 ELSE IF ProbeInitialized(tab[tog[e].tabId]) THEN SendToggle(tog[e])
                 ELSE [tog[e] EXCEPT !.pc = "ensureLoad", !.h = "probe",
                                     !.ensureLoads = @ + 1]]
    /\ UNCHANGED <<injectedTabs, backendUrl, isBackendConnected, syncStore, tab, env, upd, health, auxVars, contentVars>>

\* what follows the return of handleYouTubePageLoad: the first send after
\* ensureContentScriptInjected, the setTimeout after the re-injection
AfterPageLoad(tg) ==
    IF tg.pc = "ensureLoad" THEN SendToggle(tg) ELSE [tg EXCEPT !.pc = "delay"]

ToggleHyplStep(e) ==
    /\ tog[e].pc \in {"ensureLoad", "reinject"}
    /\ LET r == HyplStep(tog[e].h, tab[tog[e].tabId])
       IN /\ tab' = [tab EXCEPT ![tog[e].tabId] = r.page]
          /\ tog' = [tog EXCEPT ![e] =
                       IF r.h = "ret" THEN AfterPageLoad([tog[e] EXCEPT !.h = "ret"])
                       ELSE [tog[e] EXCEPT !.h = r.h]]
    /\ UNCHANGED <<injectedTabs, backendUrl, isBackendConnected, syncStore, env, upd, health, auxVars, contentVars>>

\* the callback of the first send saw chrome.runtime.lastError:
\* handleYouTubePageLoad(tabId, null).then(...)
AfterFirstFailure(tg) ==
    [tg EXCEPT !.firstFailed = TRUE, !.pc = "reinject", !.h = "probe",
               !.reinjects = @ + 1]

ToggleFirstCallback(e) ==
    /\ tog[e].pc = "sent"
    /\ IF HasReceiver(tab[tog[e].tabId])
       THEN /\ tab' = [tab EXCEPT ![tog[e].tabId] = ContentTogglePanel(@)]
            /\ tog' = [tog EXCEPT ![e].pc = "done"]
       ELSE /\ tab' = tab
            /\ tog' = [tog EXCEPT ![e] = AfterFirstFailure(tog[e])]
    /\ UNCHANGED <<injectedTabs, backendUrl, isBackendConnected, syncStore, env, upd, health, auxVars, contentVars>>

\* the 500 ms timer fires: the one retry of the message
ToggleRetryTimer(e) ==
    /\ tog[e].pc = "delay"
    /\ tog' = [tog EXCEPT ![e] = [tog[e] EXCEPT !.pc = "resent", !.sends = @ + 1,
                                               !.retries = @ + 1]]
    /\ UNCHANGED <<injectedTabs, backendUrl, isBackendConnected, syncStore, tab, env, upd, health, auxVars, contentVars>>
\* a failed retry that starts the re-injection over
RetryAgain(tg) ==
    [tg EXCEPT !.retryFailed = TRUE, !.pc = "reinject", !.h = "probe",
               !.reinjects = @ + 1]

\* the callback of the retry saw chrome.runtime.lastError: console.error only
AfterRetryFailure(tg) == [tg EXCEPT !.retryFailed = TRUE, !.pc = "done"]
\* a retry callback that answers the envelope again
RetryCallbackAnswers(er) ==
    sendResponse(er, [success |-> FALSE, error |-> "Could not establish connection"])

\* what the callback of the retry does to the envelope of the request: nothing
RetryCallbackEnvelope(er) == er

ToggleRetryCallback(e) ==
    /\ tog[e].pc = "resent"
    /\ IF HasReceiver(tab[tog[e].tabId])
       THEN /\ tab' = [tab EXCEPT ![tog[e].tabId] = ContentTogglePanel(@)]
            /\ tog' = [tog EXCEPT ![e].pc = "done"]
       ELSE /\ tab' = tab
            /\ tog' = [tog EXCEPT ![e] = AfterRetryFailure(tog[e])]
    /\ env' = [env EXCEPT ![e] = RetryCallbackEnvelope(env[e])]
    /\ UNCHANGED <<injectedTabs, backendUrl, isBackendConnected, syncStore, upd, health, auxVars, contentVars>>

\* ------------------------------------------------------------------------
\* Tab events
\* ------------------------------------------------------------------------
\* isYouTubeVideoPage(tab.url)
isYouTubeVideoPage(p) == p.watch

\* The page after a navigation completed.  A full load starts a new document
\* and script world; an in-page (history API) navigation keeps both.
Navigated(p, w, full) ==
    IF full THEN [FreshPage EXCEPT !.scriptable = p.scriptable, !.watch = w]
    ELSE [p EXCEPT !.watch = w]

\* tabs.onUpdated listener, changeInfo.status === 'complete'.  A new
\* handleYouTubePageLoad is taken only when the previous one of the tab returned.
OnUpdated(t, w, full) ==
    /\ tab[t].scriptable
    /\ upd[t] = "ret"
    /\ LET p == Navigated(tab[t], w, full)
       IN /\ tab' = [tab EXCEPT ![t] = p]
          /\ IF isYouTubeVideoPage(p)
             THEN IF t \notin injectedTabs
                  THEN /\ upd' = [upd EXCEPT ![t] = "probe"]
                       /\ injectedTabs' = injectedTabs \cup {t}
                  ELSE UNCHANGED <<upd, injectedTabs>>
             ELSE /\ upd' = upd
                  /\ injectedTabs' = injectedTabs \ {t}
    /\ UNCHANGED <<backendUrl, isBackendConnected, syncStore, env, tog, health, auxVars, contentVars>>

\* tabs.onUpdated listener, changeInfo.status === 'complete', for a watch URL
\* that failed to load: the listener sees a matching tab.url
OnUpdatedErrorPage(t) ==
    /\ tab[t].scriptable
    /\ upd[t] = "ret"
    /\ tab' = [tab EXCEPT ![t] = ErrorPage]
    /\ IF t \notin injectedTabs
       THEN /\ upd' = [upd EXCEPT ![t] = "probe"]
            /\ injectedTabs' = injectedTabs \cup {t}
       ELSE UNCHANGED <<upd, injectedTabs>>
    /\ UNCHANGED <<backendUrl, isBackendConnected, syncStore, env, tog, health, auxVars, contentVars>>

\* a step of the handleYouTubePageLoad started by tabs.onUpdated
UpdStep(t) ==
    /\ upd[t] # "ret"
    /\ LET r == HyplStep(upd[t], tab[t])
       IN /\ tab' = [tab EXCEPT ![t] = r.page]
          /\ upd' = [upd EXCEPT ![t] = r.h]
    /\ UNCHANGED <<injectedTabs, backendUrl, isBackendConnected, syncStore, env, tog, health, auxVars, contentVars>>

\* (a listener that leaves the closed tab's id in the set)
OnRemovedKeepsId(t) ==
    /\ tab[t].scriptable
    /\ injectedTabs' = injectedTabs
    /\ tab' = [tab EXCEPT ![t] = BlockedPage]
    /\ UNCHANGED <<backendUrl, isBackendConnected, syncStore, env, tog, upd, health, auxVars, contentVars>>

\* tabs.onRemoved listener: the tab is closed, its page is gone
OnRemoved(t) ==
    /\ tab[t].scriptable
    /\ injectedTabs' = injectedTabs \ {t}
    /\ tab' = [tab EXCEPT ![t] = BlockedPage]
    /\ UNCHANGED <<backendUrl, isBackendConnected, syncStore, env, tog, upd, health, auxVars, contentVars>>

\* the user clicks Close Panel in the tab: the handler belongs to a live
\* content script and its panel
ClosePanel(t) ==
    /\ tab[t].loaded /\ tab[t].listeners > 0 /\ tab[t].panels > 0
    /\ tab' = [tab EXCEPT ![t] = ClosePanelClick(tab[t])]
    /\ UNCHANGED <<injectedTabs, backendUrl, isBackendConnected, syncStore, env, tog, upd, health, auxVars, contentVars>>

\* the Dark Mode button of the panel: toggleDarkMode flips this.isDarkMode,
\* which loadDarkModeSetting and the storage.onChanged listener keep equal to
\* the stored darkMode, and writes it with chrome.storage.sync.set
ContentToggleDarkMode(store) ==
    [darkMode |-> ~GetSettingsData(store).darkMode] @@ store

ToggleDarkMode(t) ==
    /\ tab[t].loaded /\ tab[t].listeners > 0 /\ tab[t].panels > 0
    /\ syncStore' = ContentToggleDarkMode(syncStore)
    /\ UNCHANGED <<injectedTabs, backendUrl, isBackendConnected, tab, env, tog, upd, health, auxVars, contentVars>>

\* handleInstall (runtime.onInstalled with reason 'install'): the five keys
\* are written with their defaults
InstallDefaults ==
    [darkMode |-> FALSE, autoProcess |-> FALSE, showSources |-> TRUE,
     backendUrl |-> DefaultUrl, language |-> "en"]

HandleInstall ==
    /\ syncStore' = InstallDefaults @@ syncStore
    /\ UNCHANGED <<injectedTabs, backendUrl, isBackendConnected, tab, env, tog, upd, health, auxVars, contentVars>>

\* ------------------------------------------------------------------------
\* The popup's settings toggles
\* ------------------------------------------------------------------------
\* the popup is opened: constructor, then loadSettings merges the data of
\* the getSettings response into this.settings
PopupOpens ==
    /\ popup.pc = "idle"
    /\ popup' = [PopupClosed EXCEPT
                   !.settings = [k \in PopupKeys |-> GetSettingsData(syncStore)[k]]]
    /\ UNCHANGED <<injectedTabs, backendUrl, isBackendConnected, syncStore, tab, env, tog, upd, health, act, lastCheck, location, contentVars>>

\* toggleSetting(k) up to its await: the value is flipped and sent in an
\* updateSettings message, which the coordinator receives in slot e when
\* delivered, and which rejects otherwise
PopupToggleSetting(e, k, delivered) ==
    /\ popup.pc = "idle"
    /\ FreeSlot(e)
    /\ popup' = [popup EXCEPT !.settings[k] = ~popup.settings[k],
                              !.pc = IF delivered THEN "sent" ELSE "rejected",
                              !.key = k, !.slot = e]
    /\ IF delivered
       THEN /\ env' = [env EXCEPT ![e] = ListenerReturns(
                         [NewEnvelope("updateSettings", Popup,
                                      (k :> ~popup.settings[k]))
                            EXCEPT !.pc = "storage"])]
            /\ tog' = [tog EXCEPT ![e] = NoToggle]
       ELSE UNCHANGED <<env, tog>>
    /\ UNCHANGED <<injectedTabs, backendUrl, isBackendConnected, syncStore, tab, upd, health, act, lastCheck, location, contentVars>>

\* the catch block of toggleSetting: the value is flipped back
PopupCatch ==
    /\ popup.pc = "rejected"
    /\ popup' = [popup EXCEPT !.settings[popup.key] = ~popup.settings[popup.key],
                              !.pc = "idle"]
    /\ UNCHANGED <<injectedTabs, backendUrl, isBackendConnected, syncStore, tab, env, tog, upd, health, act, lastCheck, location, contentVars>>

\* the await of toggleSetting resolves with the response of the coordinator,
\* which the popup does not read: updateToggleStates, applyDarkMode
PopupAwaitResolves ==
    /\ popup.pc = "sent"
    /\ env[popup.slot].pc = "done"
    /\ popup' = [popup EXCEPT !.pc = "idle"]
    /\ UNCHANGED <<injectedTabs, backendUrl, isBackendConnected, syncStore, tab, env, tog, upd, health, act, lastCheck, location, contentVars>>

\* case 'updateSettings' of handleMessage throws (chrome.storage.sync.set
\* throws in the promise executor): the catch block answers {error}, nothing
\* is written
EnvUpdateThrows(e) ==
    /\ env[e].pc = "storage"
    /\ env[e].action = "updateSettings"
    /\ env' = [env EXCEPT ![e] = CatchBlock(env[e], ThrownMessage("updateSettings"))]
    /\ UNCHANGED <<injectedTabs, backendUrl, isBackendConnected, syncStore, tab, tog, upd, health, auxVars, contentVars>>

\* ------------------------------------------------------------------------
\* Health checks outside message handling
\* ------------------------------------------------------------------------
\* startHealthCheck: the 30 s interval fires
HealthStart ==
    /\ health = "idle"
    /\ health' = "fetch"
    /\ lastCheck' = StartCheck(CheckOfTimer)
    /\ UNCHANGED <<injectedTabs, backendUrl, isBackendConnected, syncStore, tab, env, tog, upd, act, popup, location, contentVars>>

\* the health check of the constructor or of the interval settles
HealthReturns(outcome) ==
    /\ health = "fetch"
    /\ health' = "idle"
    /\ isBackendConnected' = checkBackendConnection(outcome)
    /\ lastCheck' = SettleCheck(lastCheck, CheckOfTimer, checkBackendConnection(outcome))
    /\ UNCHANGED <<injectedTabs, backendUrl, syncStore, tab, env, tog, upd, act, popup, location, contentVars>>

\* ------------------------------------------------------------------------
\* handleTabActivation
\* ------------------------------------------------------------------------
\* act: "idle"   no call is running for the tab
\*      "get"    the chrome.tabs.get callback is pending
\*      "health" the call awaits checkBackendConnection
\*      "send"   chrome.tabs.sendMessage(tabId, {action: 'tabActivated'}) awaits
\*               its callback
\* tabs.onActivated listener
OnActivated(t) ==
    /\ act[t] = "idle"
    /\ act' = [act EXCEPT ![t] = "get"]
    /\ UNCHANGED <<injectedTabs, backendUrl, isBackendConnected, syncStore, tab, env, tog, upd, health, lastCheck, popup, location, contentVars>>

\* the chrome.tabs.get callback: on a matching URL the call goes on to
\* checkBackendConnection, otherwise (another URL, or the tab is gone and
\* the promise rejects) it ends
ActTabsGetCallback(t) ==
    /\ act[t] = "get"
    /\ IF isYouTubeVideoPage(tab[t])
       THEN /\ act' = [act EXCEPT ![t] = "health"]
            /\ lastCheck' = StartCheck(CheckOfActivation(t))
       ELSE /\ act' = [act EXCEPT ![t] = "idle"]
            /\ lastCheck' = lastCheck
    /\ UNCHANGED <<injectedTabs, backendUrl, isBackendConnected, syncStore, tab, env, tog, upd, health, popup, location, contentVars>>

\* the awaited health check settles; the tabActivated message is sent
ActHealthReturns(t, outcome) ==
    /\ act[t] = "health"
    /\ isBackendConnected' = checkBackendConnection(outcome)
    /\ lastCheck' = SettleCheck(lastCheck, CheckOfActivation(t), checkBackendConnection(outcome))
    /\ act' = [act EXCEPT ![t] = "send"]
    /\ UNCHANGED <<injectedTabs, backendUrl, syncStore, tab, env, tog, upd, health, popup, location, contentVars>>

\* the callback of the send: the content script answered {success: true}
\* (its case 'tabActivated' changes nothing once isInitialized is set), or
\* chrome.runtime.lastError is logged
ActSendCallback(t) ==
    /\ act[t] = "send"
    /\ act' = [act EXCEPT ![t] = "idle"]
    /\ UNCHANGED <<injectedTabs, backendUrl, isBackendConnected, syncStore, tab, env, tog, upd, health, lastCheck, popup, location, contentVars>>

\* ------------------------------------------------------------------------
\* Coordinator specification
\* ------------------------------------------------------------------------
\* the state after new RAGBackgroundService(): the fields of the constructor,
\* the initial health check in flight; the tabs are whatever the browser holds
CoordInit ==
    /\ injectedTabs = {}
    /\ backendUrl = DefaultUrl
    /\ isBackendConnected = FALSE
    /\ syncStore = EmptyStore
    /\ tab \in [Tabs -> InitialPages]
    /\ env = [e \in Slots |-> NoEnvelope]
    /\ tog = [e \in Slots |-> NoToggle]
    /\ upd = [t \in Tabs |-> "ret"]
    /\ health = "fetch"
    /\ act = [t \in Tabs |-> "idle"]
    /\ lastCheck = StartCheck(CheckOfTimer)
    /\ popup = PopupClosed

Senders == {Popup} \cup Tabs

\* the coordinator's context is torn down and started again: the script runs
\* from its top, new RAGBackgroundService() sets the fields of the
\* constructor and starts its health check; calls that were pending are gone,
\* chrome.storage and the tabs are as they were
Restart ==
    /\ injectedTabs' = {}
    /\ backendUrl' = DefaultUrl
    /\ isBackendConnected' = FALSE
    /\ env' = [e \in Slots |-> NoEnvelope]
    /\ tog' = [e \in Slots |-> NoToggle]
    /\ upd' = [t \in Tabs |-> "ret"]
    /\ health' = "fetch"
    /\ act' = [t \in Tabs |-> "idle"]
    /\ lastCheck' = StartCheck(CheckOfTimer)
    /\ UNCHANGED <<syncStore, tab, popup, location, contentVars>>

CoordNext ==
    \/ \E e \in Slots, s \in Senders : RecvCheckBackend(e, s)
    \/ \E e \in Slots, s \in Senders, a \in BackendActions : RecvBackendAction(e, a, s)
    \/ \E e \in Slots, s \in Senders : RecvTogglePanel(e, s)
    \/ \E e \in Slots, s \in Senders, st \in SettingsPayloads \cup {NoSettings},
          a \in CoordinatorActions : RecvStorageAction(e, a, s, st)
    \/ \E e \in Slots, s \in Senders : RecvUnknown(e, s)
    \/ \E e \in Slots, s \in Senders : RecvNullRequest(e, s)
    \/ \E e \in Slots, s \in Senders : RecvSettingsMissing(e, s)
    \/ \E e \in Slots, o \in FetchOutcomes : EnvHealthReturns(e, o)
    \/ \E e \in Slots, o \in FetchOutcomes : EnvFetchReturns(e, o)
    \/ \E e \in Slots : EnvStorageCallback(e)
    \/ \E e \in Slots : EnvSettingsUrlCallback(e)
    \/ \E e \in Slots, o \in FetchOutcomes : EnvRecheckReturns(e, o)
    \/ \E e \in Slots, a \in Tabs \cup {0} : EnvTabsQueryCallback(e, a)
    \/ \E e \in Slots : ToggleEnsureProbe(e)
    \/ \E e \in Slots : ToggleHyplStep(e)
    \/ \E e \in Slots : ToggleFirstCallback(e)
    \/ \E e \in Slots : ToggleRetryTimer(e)
    \/ \E e \in Slots : ToggleRetryCallback(e)
    \/ \E t \in Tabs, w \in BOOLEAN, full \in BOOLEAN : OnUpdated(t, w, full)
    \/ \E t \in Tabs : OnUpdatedErrorPage(t)
    \/ \E t \in Tabs : UpdStep(t)
    \/ \E t \in Tabs : OnRemoved(t)
    \/ \E t \in Tabs : ClosePanel(t)
    \/ \E t \in Tabs : ToggleDarkMode(t)
    \/ HealthStart
    \/ \E o \in FetchOutcomes : HealthReturns(o)

\* the popup's toggles and the coordinator's handling of their messages
PopupNext ==
    \/ PopupOpens
    \/ \E e \in Slots, k \in PopupKeys, delivered \in BOOLEAN :
          PopupToggleSetting(e, k, delivered)
    \/ PopupCatch
    \/ PopupAwaitResolves
    \/ \E e \in Slots : EnvStorageCallback(e)
    \/ \E e \in Slots : EnvUpdateThrows(e)
    \/ \E t \in Tabs : ToggleDarkMode(t)

\* message delivery to the tabs: togglePanel requests, tab activation, and
\* the tab events around them
DeliveryNext ==
    \/ \E e \in Slots, s \in Senders : RecvTogglePanel(e, s)
    \/ \E e \in Slots, a \in Tabs \cup {0} : EnvTabsQueryCallback(e, a)
    \/ \E e \in Slots : ToggleEnsureProbe(e)
    \/ \E e \in Slots : ToggleHyplStep(e)
    \/ \E e \in Slots : ToggleFirstCallback(e)
    \/ \E e \in Slots : ToggleRetryTimer(e)
    \/ \E e \in Slots : ToggleRetryCallback(e)
    \/ \E t \in Tabs, w \in BOOLEAN, full \in BOOLEAN : OnUpdated(t, w, full)
    \/ \E t \in Tabs : UpdStep(t)
    \/ \E t \in Tabs : OnRemoved(t)
    \/ \E t \in Tabs : ClosePanel(t)
    \/ \E t \in Tabs : OnActivated(t)
    \/ \E t \in Tabs : ActTabsGetCallback(t)
    \/ \E t \in Tabs, o \in FetchOutcomes : ActHealthReturns(t, o)
    \/ \E t \in Tabs : ActSendCallback(t)

\* request.settings of the updateSettings envelopes followed in the
\* specification of the settings
SettingsValues ==
    { [darkMode |-> TRUE], [darkMode |-> FALSE], [autoProcess |-> TRUE],
      [showSources |-> FALSE], [backendUrl |-> AltUrl], [backendUrl |-> ""],
      [language |-> "fr"], [language |-> ""],
      [darkMode |-> TRUE, language |-> "fr"] }

\* the settings alone: getSettings and updateSettings envelopes, the install
\* handler, the Dark Mode button of a panel
SettingsNext ==
    \/ \E e \in Slots, s \in Senders, st \in SettingsValues \cup {NoSettings},
          a \in {"getSettings", "updateSettings"} : RecvStorageAction(e, a, s, st)
    \/ \E e \in Slots : EnvStorageCallback(e)
    \/ \E e \in Slots : EnvSettingsUrlCallback(e)
    \/ \E e \in Slots, o \in FetchOutcomes : EnvRecheckReturns(e, o)
    \/ \E t \in Tabs : ToggleDarkMode(t)
    \/ HandleInstall

\* the settings and restarts of the coordinator
RestartNext ==
    \/ SettingsNext
    \/ Restart

\* ========================================================================
\* Content script: the streaming turn of sendMessage
\* ========================================================================
\* ---- the event stream as text ----
\* Text is a sequence of characters.  A stream is the concatenation of lines
\* 'data: <json>' each ended by a newline.  The JSON text of an event is
\* written with one character per syntactic part: the opening brace, the type,
\* the content, the closing brace.
NL == "\n"
DataPrefix == <<"d", "a", "t", "a", ":", " ">>

TokenEvent(c) == [type |-> "token", content |-> <<c>>]
SourcesEvent(c) == [type |-> "sources", content |-> <<c>>]
DoneEvent == [type |-> "done", content |-> <<>>]
ErrorEvent(c) == [type |-> "error", content |-> <<c>>]

EventValues ==
    {TokenEvent("A"), TokenEvent("B"), SourcesEvent("s"), DoneEvent, ErrorEvent("e")}

TypeChar(ty) ==
    CASE ty = "token" -> "T" [] ty = "sources" -> "S" [] ty = "done" -> "D"
      [] OTHER -> "X"

\* JSON.stringify of an event (what the backend writes after 'data: ')
JSONStringify(ev) == <<"{", TypeChar(ev.type)>> \o ev.content \o <<"}">>

ParseFailure == [type |-> "SyntaxError", content |-> <<>>]

\* JSON.parse: the event whose JSON text this is; it throws on anything else
\* (a JSON text cut short, an empty string)
JSONParse(txt) ==
    IF \E ev \in EventValues : JSONStringify(ev) = txt
    THEN CHOOSE ev \in EventValues : JSONStringify(ev) = txt
    ELSE ParseFailure

\* a line whose payload is a JSON text cut short
MalformedItem == [type |-> "malformed", content |-> <<>>]

\* what a stream is made of: events and malformed lines
StreamItems == EventValues \cup {MalformedItem}

\* the text after 'data: ' on the line of an item
LineText(ev) == IF ev = MalformedItem THEN <<"{", "T">> ELSE JSONStringify(ev)

EventLine(ev) == DataPrefix \o LineText(ev) \o <<NL>>

RECURSIVE StreamText(_)
StreamText(evs) ==
    IF evs = <<>> THEN <<>> ELSE EventLine(Head(evs)) \o StreamText(Tail(evs))

EventSeqs == UNION {[1..n -> StreamItems] : n \in 0..MaxEvents}

\* chunk.split('\n')
RECURSIVE Split(_)
Split(txt) ==
    IF \A i \in 1..Len(txt) : txt[i] # NL THEN <<txt>>
    ELSE LET i == CHOOSE k \in 1..Len(txt) :
                      txt[k] = NL /\ \A j \in 1..(k - 1) : txt[j] # NL
         IN <<SubSeq(txt, 1, i - 1)>> \o Split(SubSeq(txt, i + 1, Len(txt)))

\* line.startsWith('data: ')
StartsWithData(line) ==
    Len(line) >= Len(DataPrefix) /\ SubSeq(line, 1, Len(DataPrefix)) = DataPrefix

\* line.slice(6)
Slice6(line) == SubSeq(line, Len(DataPrefix) + 1, Len(line))

\* ---- the message view ----
\* A child of #rag-messages: id is the element id (0 for none), kind its
\* class, text the markup of its text, sources the citation list it shows,
\* streaming whether it carries the streaming cursor.

\* escapeHtml: the text is assigned to textContent and read back as innerHTML
escapeHtml(text) ==
    [i \in 1..Len(text) |->
        CASE text[i] = "&" -> "&amp;"
          [] text[i] = "<" -> "&lt;"
          [] text[i] = ">" -> "&gt;"
          [] OTHER -> text[i]]

\* .replace(/\\n/g, '<br>'): the pattern is a backslash followed by the letter n
RECURSIVE ReplaceBackslashN(_)
ReplaceBackslashN(text) ==
    IF Len(text) < 2 THEN text
    ELSE IF text[1] = "\\" /\ text[2] = "n"
    THEN <<"<br>">> \o ReplaceBackslashN(SubSeq(text, 3, Len(text)))
    ELSE <<text[1]>> \o ReplaceBackslashN(Tail(text))

formatMessageText(text) == ReplaceBackslashN(escapeHtml(text))

Message(id, kind, text, sources, streaming) ==
    [id |-> id, kind |-> kind, text |-> text, sources |-> sources,
     streaming |-> streaming]

HasElement(msgs, id) == id # 0 /\ \E i \in 1..Len(msgs) : msgs[i].id = id
ElementIndex(msgs, id) == CHOOSE i \in 1..Len(msgs) : msgs[i].id = id

\* createStreamingMessage: the placeholder with the typing indicator
createStreamingMessage(msgs, id) ==
    Append(msgs, Message(id, "assistant", <<>>, <<>>, TRUE))

\* updateStreamingMessage(messageId, text)
updateStreamingMessage(msgs, id, text) ==
    IF ~HasElement(msgs, id) THEN msgs
    ELSE [msgs EXCEPT ![ElementIndex(msgs, id)] =
             Message(id, "assistant", formatMessageText(text), <<>>, TRUE)]

\* finalizeStreamingMessage(messageId, text, sources)
finalizeStreamingMessage(msgs, id, text, sources) ==
    IF ~HasElement(msgs, id) THEN msgs
    ELSE [msgs EXCEPT ![ElementIndex(msgs, id)] =
             Message(id, "assistant", formatMessageText(text), sources, FALSE)]

\* removeStreamingMessage(messageId)
removeStreamingMessage(msgs, id) ==
    IF ~HasElement(msgs, id) THEN msgs
    ELSE SelectSeq(msgs, LAMBDA m : m.id # id)

addUserMessage(msgs, text) ==
    Append(msgs, Message(0, "user", escapeHtml(text), <<>>, FALSE))
addAssistantMessage(msgs, text) ==
    Append(msgs, Message(0, "assistant", escapeHtml(text), <<>>, FALSE))
addSystemMessage(msgs, text) == Append(msgs, Message(0, "system", text, <<>>, FALSE))

\* ---- the read loop ----
\* The locals of the streaming branch and the view they act on:
\*   fullAnswer, sources, messageId : locals of sendMessage
\*   msgs                           : the children of #rag-messages
\* and a record of what the loop did, kept for the properties:
\*   tokenLog   : contents of the token events dispatched, in order
\*   shown      : per token event, the placeholder text after it was
\*                dispatched (<<FALSE>> when the placeholder was not there)
\*   sourcesLog : payloads of the sources events dispatched, in order
\*   finalized  : "no", or the first terminal event dispatched ("done"/"error")
\*   finalShown : the placeholder right after the last done was dispatched
\*   finalTokens: how many token events had been dispatched by then
\*   changedAfterFinal : an event dispatched after the first terminal event
\*                changed the view or fullAnswer
Shown(msgs, id) ==
    IF HasElement(msgs, id) THEN <<TRUE, msgs[ElementIndex(msgs, id)]>> ELSE <<FALSE>>

NewLoop(msgs, id) ==
    [fullAnswer |-> <<>>, sources |-> <<>>, messageId |-> id, msgs |-> msgs,
     tokenLog |-> <<>>, shown |-> <<>>, sourcesLog |-> <<>>, finalized |-> "no",
     finalShown |-> <<FALSE>>, finalTokens |-> 0, changedAfterFinal |-> FALSE]

\* a token branch that shows the token alone
OnTokenAlone(st, content) ==
    [st EXCEPT !.fullAnswer = content,
               !.msgs = updateStreamingMessage(st.msgs, st.messageId, content)]

\* the four branches of the dispatch on data.type
OnToken(st, content) ==
    [st EXCEPT !.fullAnswer = st.fullAnswer \o content,
               !.msgs = updateStreamingMessage(st.msgs, st.messageId,
                                               st.fullAnswer \o content)]

OnSources(st, content) == [st EXCEPT !.sources = content]

OnDone(st) ==
    [st EXCEPT !.msgs = finalizeStreamingMessage(st.msgs, st.messageId,
                                                 st.fullAnswer, st.sources)]

OnError(st, content) ==
    [st EXCEPT !.msgs = addAssistantMessage(
                            removeStreamingMessage(st.msgs, st.messageId),
                            <<"Error: ">> \o content)]

Dispatch(st, data) ==
    CASE data.type = "token" -> OnToken(st, data.content)
      [] data.type = "sources" -> OnSources(st, data.content)
      [] data.type = "done" -> OnDone(st)
      [] data.type = "error" -> OnError(st, data.content)
      [] OTHER -> st

\* Dispatch, with the record of what was done
Record(st, data) ==
    LET n == Dispatch(st, data) IN
    [n EXCEPT
       !.tokenLog = IF data.type = "token" THEN Append(@, data.content) ELSE @,
       !.shown = IF data.type = "token"
                 THEN Append(@, Shown(n.msgs, n.messageId)) ELSE @,
       !.sourcesLog = IF data.type = "sources" THEN Append(@, data.content) ELSE @,
       !.finalized = IF st.finalized = "no" /\ data.type \in {"done", "error"}
                     THEN data.type ELSE @,
       !.finalShown = IF data.type = "done" THEN Shown(n.msgs, n.messageId) ELSE @,
       !.finalTokens = IF data.type = "done" THEN Len(st.tokenLog) ELSE @,
       !.changedAfterFinal =
            @ \/ (st.finalized # "no"
                  /\ (n.msgs # st.msgs \/ n.fullAnswer # st.fullAnswer))]

\* a loop in which a line that does not parse ends the turn like an error event
ProcessLineFailing(st, line) ==
    IF ~StartsWithData(line) THEN st
    ELSE IF JSONParse(Slice6(line)) = ParseFailure
    THEN Record(st, ErrorEvent("p"))
    ELSE Record(st, JSONParse(Slice6(line)))

\* one line of a chunk: lines without the prefix are passed over, a line
\* whose JSON does not parse is logged and passed over
ProcessLine(st, line) ==
    IF ~StartsWithData(line) THEN st
    ELSE IF JSONParse(Slice6(line)) = ParseFailure THEN st
    ELSE Record(st, JSONParse(Slice6(line)))

RECURSIVE ProcessLines(_, _)
ProcessLines(st, lines) ==
    IF lines = <<>> THEN st
    ELSE ProcessLines(ProcessLine(st, Head(lines)), Tail(lines))

\* the body of the while loop for one chunk read from the reader
ProcessChunk(st, chunk) == ProcessLines(st, Split(chunk))

\* the loop run over a list of chunks
RECURSIVE ProcessChunks(_, _)
ProcessChunks(st, chunks) ==
    IF chunks = <<>> THEN st
    ELSE ProcessChunks(ProcessChunk(st, Head(chunks)), Tail(chunks))

\* ---- sendMessage and processCurrentVideo ----
NoVideo == ""
VideoIds == {"abc123"}

\* input.value.trim(): nothing typed, or a question
Inputs == {<<>>, <<"q">>}

\* video ids of the watch pages the tab may show
Subjects == VideoIds \cup {"xyz789"}

\* ---- conversation history in localStorage ----
\* result.answer of an error result, conv.answer of an entry stored without it
Undefined == <<"undefined">>

\* the key `rag_conversation_${this.currentVideoId}` (currentVideoId is null
\* until setup has extracted it)
StoreKey(id) == <<"rag_conversation_", IF id = NoVideo THEN "null" ELSE id>>

StoreKeys == {StoreKey(id) : id \in Subjects \cup {NoVideo}}

\* JSON.stringify of the history: a property whose value is undefined is left out
JSONStringifyHistory(h) ==
    [i \in 1..Len(h) |->
        IF "answer" \in DOMAIN h[i] /\ h[i].answer = Undefined
        THEN [question |-> h[i].question]
        ELSE h[i]]

\* values of a key that no save of the history wrote: a text that is no
\* JSON, the JSON text of an object
NotJsonText == <<[text |-> "not json"]>>
ObjectText == <<[text |-> "{}"]>>
CorruptTexts == {NotJsonText, ObjectText}

\* JSON.parse throws a SyntaxError
ParseThrows == <<[thrown |-> "SyntaxError"]>>

\* a parsed value that is no array: it has neither forEach nor push
NotASequence == <<[object |-> TRUE]>>

\* JSON.parse of a stored text
JSONParseHistory(txt) ==
    CASE txt = NotJsonText -> ParseThrows
      [] txt = ObjectText -> NotASequence
      [] OTHER -> txt

\* conv.answer
AnswerOf(conv) == IF "answer" \in DOMAIN conv THEN conv.answer ELSE Undefined

\* the text escapeHtml gets from a value: textContent = undefined shows nothing
TextOf(v) == IF v = Undefined THEN <<>> ELSE v

\* a save that writes nothing
saveNothing(store, id, h) == store

\* saveConversationHistory: localStorage.setItem under the key of currentVideoId
saveConversationHistory(store, id, h) ==
    [store EXCEPT ![StoreKey(id)] = <<JSONStringifyHistory(h)>>]

\* loadConversationHistory: the [history, messages] it leaves; a missing key
\* leaves both as they are
RECURSIVE RestoreMessages(_, _)
RestoreMessages(msgs, h) ==
    IF h = <<>> THEN msgs
    ELSE RestoreMessages(
             addAssistantMessage(addUserMessage(msgs, h[1].question), TextOf(AnswerOf(h[1]))),
             Tail(h))

\* inside the try: JSON.parse may throw before the assignment; forEach
\* throws after it when the value is no array; the catch logs
loadConversationHistory(store, id, h, msgs) ==
    IF store[StoreKey(id)] = <<>> THEN <<h, msgs>>
    ELSE LET saved == JSONParseHistory(store[StoreKey(id)][1])
         IN CASE saved = ParseThrows -> <<h, msgs>>
              [] saved = NotASequence -> <<saved, msgs>>
              [] OTHER -> <<saved, RestoreMessages(msgs, saved)>>

\* what the page shows when the panel may be gone: every message method
\* returns when #rag-messages or the element is missing
InPanel(msgs) == IF chatPanel THEN msgs ELSE messages

\* the history localStorage holds for video id, as a load would parse it
Persisted(store, id) ==
    IF store[StoreKey(id)] = <<>> THEN <<>> ELSE JSONParseHistory(store[StoreKey(id)][1])

\* the value stored for video id, if any, is one a save of the history wrote
Intact(store, id) == Persisted(store, id) \notin {ParseThrows, NotASequence}

\* pc: "idle", "fetch" (the POST to /ask_question_stream is pending),
\*     "reading" (the read loop awaits reader.read())
\* remaining: the part of the stream that has not arrived yet
\* text: the whole stream the backend sends in this turn
\* videoId: video_id of the request body
IdleTurn == [pc |-> "idle", question |-> <<>>, remaining |-> <<>>, text |-> <<>>,
             videoId |-> NoVideo, loop |-> NewLoop(<<>>, 0)]

\* a flag that is not set before the first await
ProcessingNotSet == FALSE

\* this.isProcessing after the guards of sendMessage / processCurrentVideo
\* were passed, before the first await
ProcessingOnceStarted == TRUE

\* 'streaming-' + Date.now(), the identifier of the placeholder
NewMessageId == 1

\* The specification follows a content-script instance through one
\* interaction (a question, a reply without a video, or a processCurrentVideo
\* request) from its start to its end; calls made meanwhile are included.

\* sendMessage up to its first await (the fetch)
SendMessage(m) ==
    /\ chatPanel
    /\ IF m = <<>>
       THEN UNCHANGED contentVars
       ELSE IF isProcessing
       THEN /\ ignoredCall' = TRUE
            /\ UNCHANGED <<currentVideoId, conversationHistory, isProcessing,
                           messages, turn, proc, inflight, finished>>
       ELSE /\ ~finished
            /\ Len(conversationHistory) < MaxHistory
            /\ IF currentVideoId = NoVideo
               THEN /\ messages' = addAssistantMessage(messages, <<"Please navigate">>)
                    /\ finished' = TRUE
                    /\ UNCHANGED <<currentVideoId, conversationHistory,
                                   isProcessing, turn, proc, inflight, ignoredCall>>
               ELSE /\ isProcessing' = ProcessingOnceStarted
                    /\ messages' = createStreamingMessage(addUserMessage(messages, m),
                                                          NewMessageId)
                    /\ turn' = [IdleTurn EXCEPT !.pc = "fetch", !.question = m,
                                                !.videoId = currentVideoId,
                                                !.loop = NewLoop(<<>>, NewMessageId)]
                    /\ inflight' = inflight + 1
                    /\ UNCHANGED <<currentVideoId, conversationHistory, proc,
                                   finished, ignoredCall>>
    /\ UNCHANGED historyVars
    /\ UNCHANGED coordVars

\* (a finally block that leaves the flag set)
FinallyKeepsFlag ==
    /\ isProcessing' = isProcessing
    /\ inflight' = inflight - 1
    /\ finished' = TRUE

\* the finally block of sendMessage / processCurrentVideo
Finally ==
    /\ isProcessing' = FALSE
    /\ inflight' = inflight - 1
    /\ finished' = TRUE

\* fetch rejects: the catch block
FetchFails ==
    /\ turn.pc = "fetch"
    /\ messages' = InPanel(addAssistantMessage(
                               removeStreamingMessage(messages, turn.loop.messageId),
                               <<"Sorry, I encountered an error">>))
    /\ turn' = [turn EXCEPT !.pc = "idle"]
    /\ Finally
    /\ UNCHANGED <<currentVideoId, conversationHistory, proc, ignoredCall>>
    /\ UNCHANGED historyVars
    /\ UNCHANGED coordVars

\* the entry pushed to conversationHistory after the loop
HistoryEntry(question, answer) == [question |-> question, answer |-> answer]

\* what response.json() gives in the non-streaming branch: a document with
\* an error, with an answer, or (the body of a response that is not ok) with
\* neither
FallbackResults ==
    {[error |-> <<"e">>], [answer |-> <<"A">>, sources |-> <<"s">>],
     [answer |-> <<>>, sources |-> <<"s">>], [detail |-> <<"d">>]}

\* result.answer, result.sources || []
ResultAnswer(r) == IF "answer" \in DOMAIN r THEN r.answer ELSE Undefined
ResultSources(r) == IF "sources" \in DOMAIN r THEN r.sources ELSE <<>>

\* result.answer || 'No answer received'
AnswerOrDefault(answer) ==
    IF answer \in {<<>>, Undefined} THEN <<"No answer received">> ELSE answer

\* what the fallback branch renders for a result that is not an error
FallbackView(msgs, id, r) ==
    finalizeStreamingMessage(
        updateStreamingMessage(msgs, id, AnswerOrDefault(ResultAnswer(r))),
        id, AnswerOrDefault(ResultAnswer(r)), ResultSources(r))

\* the end of either branch, with view the messages the branch has rendered:
\* conversationHistory.push and saveConversationHistory; push throws when
\* the history is no array, and the catch block of sendMessage removes the
\* placeholder and adds its message
PushAndSave(view, answer) ==
    IF conversationHistory = NotASequence
    THEN /\ messages' = InPanel(addAssistantMessage(
                                    removeStreamingMessage(view, turn.loop.messageId),
                                    <<"Sorry, I encountered an error">>))
         /\ UNCHANGED <<conversationHistory, localStore, discarded>>
    ELSE LET h == Append(conversationHistory, HistoryEntry(turn.question, answer))
         IN /\ messages' = InPanel(view)
            /\ conversationHistory' = h
            /\ localStore' = saveConversationHistory(localStore, currentVideoId, h)
            /\ discarded' = FALSE

\* fetch resolves with something other than an event stream: the fallback
\* branch (result.answer is undefined in an error result)
FallbackReply(r) ==
    /\ turn.pc = "fetch"
    /\ Len(conversationHistory) < MaxHistory
    /\ PushAndSave(IF "error" \in DOMAIN r
                   THEN addAssistantMessage(
                            removeStreamingMessage(messages, turn.loop.messageId),
                            <<"Error: ">> \o r.error)
                   ELSE FallbackView(messages, turn.loop.messageId, r),
                   ResultAnswer(r))
    /\ turn' = [turn EXCEPT !.pc = "idle"]
    /\ Finally
    /\ UNCHANGED <<currentVideoId, proc, ignoredCall, chatPanel>>
    /\ UNCHANGED coordVars

\* fetch resolves with an event stream: response.body.getReader()
StreamBegins(evs) ==
    /\ turn.pc = "fetch"
    /\ turn' = [turn EXCEPT !.pc = "reading", !.remaining = StreamText(evs),
                            !.text = StreamText(evs)]
    /\ UNCHANGED <<currentVideoId, conversationHistory, isProcessing, messages,
                   proc, inflight, finished, ignoredCall>>
    /\ UNCHANGED historyVars
    /\ UNCHANGED coordVars

\* reader.read() resolves with the next n characters of the stream
ReadChunk(n) ==
    /\ turn.pc = "reading"
    /\ n \in 1..Len(turn.remaining)
    /\ LET st == ProcessChunk([turn.loop EXCEPT !.msgs = messages],
                              SubSeq(turn.remaining, 1, n))
       IN /\ messages' = st.msgs
          /\ turn' = [turn EXCEPT !.loop = [st EXCEPT !.msgs = <<>>],
                                  !.remaining = SubSeq(@, n + 1, Len(@))]
    /\ UNCHANGED <<currentVideoId, conversationHistory, isProcessing, proc,
                   inflight, finished, ignoredCall>>
    /\ UNCHANGED historyVars
    /\ UNCHANGED coordVars


\* reader.read() resolves with done: the loop is left, the turn is pushed to
\* the history, then the finally block
ReadDone ==
    /\ turn.pc = "reading"
    /\ turn.remaining = <<>>
    /\ PushAndSave(messages, turn.loop.fullAnswer)
    /\ turn' = [turn EXCEPT !.pc = "idle"]
    /\ Finally
    /\ UNCHANGED <<currentVideoId, proc, ignoredCall, chatPanel>>
    /\ UNCHANGED coordVars

\* processCurrentVideo up to its first await
ProcessCurrentVideo ==
    /\ IF currentVideoId = NoVideo
       THEN UNCHANGED contentVars
       ELSE IF isProcessing
       THEN /\ ignoredCall' = TRUE
            /\ UNCHANGED <<currentVideoId, conversationHistory, isProcessing,
                           messages, turn, proc, inflight, finished>>
       ELSE /\ ~finished
            /\ isProcessing' = ProcessingOnceStarted
            /\ proc' = "fetch"
            /\ inflight' = inflight + 1
            /\ UNCHANGED <<currentVideoId, conversationHistory, messages, turn,
                           finished, ignoredCall>>
    /\ UNCHANGED historyVars
    /\ UNCHANGED coordVars

\* the fetch of processCurrentVideo settles
ProcessVideoReturns(ok) ==
    /\ proc = "fetch"
    /\ proc' = "idle"
    /\ messages' = addSystemMessage(messages,
                      IF ok THEN <<"Video processed">> ELSE <<"Failed to process video">>)
    /\ Finally
    /\ UNCHANGED <<currentVideoId, conversationHistory, turn, ignoredCall>>
    /\ UNCHANGED historyVars
    /\ UNCHANGED coordVars

\* the New Chat button: refreshConversation
NewChat ==
    /\ conversationHistory' = <<>>
    /\ messages' = <<>>
    /\ discarded' = (discarded \/ conversationHistory # <<>>)
    /\ UNCHANGED <<currentVideoId, isProcessing, turn, proc, inflight, finished,
                   ignoredCall, localStore, chatPanel>>
    /\ UNCHANGED coordVars

\* conversationHistory after handleVideoChange has seen a new video id
\* (an updateChatPanel that leaves the messages in the panel)
updateChatPanelKeeps(msgs) == InPanel(msgs)

\* updateChatPanel: the message list of a panel that is there is emptied
updateChatPanel(msgs) == InPanel(<<>>)

HistoryKept(h) == h

HistoryAfterSwitch(h) == <<>>

\* the page moves to video v without a new document (NoVideo: to a page that
\* is not a watch page) and handleVideoChange runs: a new id replaces
\* currentVideoId, empties the history and, through updateChatPanel, the
\* message list of a panel that is there
HandleVideoChange(v) ==
    /\ location' = v
    /\ IF v = NoVideo \/ v = currentVideoId
       THEN UNCHANGED <<currentVideoId, conversationHistory, messages, discarded>>
       ELSE /\ currentVideoId' = v
            /\ conversationHistory' = HistoryAfterSwitch(conversationHistory)
            /\ messages' = updateChatPanel(messages)
            /\ discarded' = FALSE
    /\ UNCHANGED <<isProcessing, turn, proc, inflight, finished, ignoredCall,
                   localStore, chatPanel>>
    /\ UNCHANGED coordOnly

\* the Close Panel item of the settings menu: the panel leaves the document
\* and this.chatPanel becomes null
CloseSettingsClick ==
    /\ chatPanel
    /\ chatPanel' = FALSE
    /\ messages' = <<>>
    /\ UNCHANGED <<currentVideoId, conversationHistory, isProcessing, turn, proc,
                   inflight, finished, ignoredCall, localStore, discarded>>
    /\ UNCHANGED coordVars

\* togglePanel in the content script: without a panel it calls
\* createChatPanel, which ends with loadConversationHistory under the key of
\* currentVideoId; with one it flips the visibility only
TogglePanelMessage ==
    /\ IF chatPanel
       THEN UNCHANGED <<conversationHistory, messages, chatPanel, discarded>>
       ELSE LET loaded == loadConversationHistory(localStore, currentVideoId,
                                                  conversationHistory, <<>>)
            IN /\ chatPanel' = TRUE
               /\ conversationHistory' = loaded[1]
               /\ messages' = loaded[2]
               /\ discarded' = (discarded /\ loaded[1] = conversationHistory)
    /\ UNCHANGED <<currentVideoId, isProcessing, turn, proc, inflight, finished,
                   ignoredCall, localStore>>
    /\ UNCHANGED coordVars

\* the document is loaded at video v (NoVideo: a page that is not a watch
\* page) and a new YouTubeRAGAssistant is constructed: setup calls
\* createChatPanel, and with it loadConversationHistory, while currentVideoId
\* is still null, and extracts the video id afterwards. localStorage outlives
\* the document; a turn of the old document is gone with it.
PageLoad(v) ==
    /\ LET loaded == loadConversationHistory(localStore, NoVideo, <<>>, <<>>)
       IN /\ conversationHistory' = loaded[1]
          /\ messages' = loaded[2]
    /\ chatPanel' = TRUE
    /\ currentVideoId' = v
    /\ isProcessing' = FALSE
    /\ turn' = IdleTurn
    /\ proc' = "idle"
    /\ inflight' = 0
    /\ finished' = FALSE
    /\ ignoredCall' = FALSE
    /\ discarded' = FALSE
    /\ location' = v
    /\ UNCHANGED localStore
    /\ UNCHANGED coordOnly

\* a script of the page, which shares localStorage with the content script,
\* or the user writes a value of its own under the key of video v
StorageCorrupted(v, txt) ==
    /\ localStore' = [localStore EXCEPT ![StoreKey(v)] = <<txt>>]
    /\ UNCHANGED <<currentVideoId, conversationHistory, isProcessing, messages,
                   turn, proc, inflight, finished, ignoredCall, chatPanel, discarded>>
    /\ UNCHANGED coordVars

\* the user turns to the input for another question
NextQuestion ==
    /\ finished
    /\ Len(messages) < 2 * MaxHistory
    /\ finished' = FALSE
    /\ UNCHANGED <<currentVideoId, conversationHistory, isProcessing, messages,
                   turn, proc, inflight, ignoredCall, historyVars>>
    /\ UNCHANGED coordVars

\* the state after new YouTubeRAGAssistant() and setup
ContentInit ==
    /\ currentVideoId \in VideoIds \cup {NoVideo}
    /\ conversationHistory = <<>>
    /\ isProcessing = FALSE
    /\ messages = <<>>
    /\ turn = IdleTurn
    /\ proc = "idle"
    /\ inflight = 0
    /\ finished = FALSE
    /\ ignoredCall = FALSE
    /\ localStore = [k \in StoreKeys |-> <<>>]
    /\ chatPanel = TRUE
    /\ discarded = FALSE
    /\ location = currentVideoId

\* the longest stream of MaxEvents events
MaxTextLen == MaxEvents * Len(EventLine(TokenEvent("A")))

StreamNext ==
    \/ \E m \in Inputs : SendMessage(m)
    \/ FetchFails
    \/ \E r \in FallbackResults : FallbackReply(r)
    \/ \E evs \in EventSeqs : StreamBegins(evs)
    \/ \E n \in 1..MaxTextLen : ReadChunk(n)
    \/ ReadDone
    \/ ProcessCurrentVideo
    \/ \E ok \in BOOLEAN : ProcessVideoReturns(ok)
    \/ NewChat

\* the conversation store: turns answered through the non-streaming branch
\* (the streaming branch pushes and saves the same way), page loads, video
\* changes, closing and recreating the panel
HistoryNext ==
    \/ \E m \in Inputs : SendMessage(m)
    \/ FetchFails
    \/ \E r \in FallbackResults : FallbackReply(r)
    \/ NewChat
    \/ \E v \in Subjects \cup {NoVideo} : HandleVideoChange(v)
    \/ CloseSettingsClick
    \/ TogglePanelMessage
    \/ \E v \in Subjects \cup {NoVideo} : PageLoad(v)
    \/ NextQuestion
    \/ \E v \in Subjects, txt \in CorruptTexts : StorageCorrupted(v, txt)

\* the streams followed in the specification of a video change during a turn
ShortStreams == {evs \in EventSeqs : Len(evs) <= 2}

\* one turn of sendMessage with every way its request can end
TurnNext ==
    \/ \E m \in Inputs : SendMessage(m)
    \/ FetchFails
    \/ \E r \in FallbackResults : FallbackReply(r)
    \/ \E evs \in ShortStreams : StreamBegins(evs)
    \/ \E n \in 1..MaxTextLen : ReadChunk(n)
    \/ ReadDone

\* a streaming turn and the video changes that may fall into it
SwitchNext ==
    \/ \E m \in Inputs : SendMessage(m)
    \/ \E evs \in ShortStreams : StreamBegins(evs)
    \/ \E n \in 1..MaxTextLen : ReadChunk(n)
    \/ ReadDone
    \/ \E v \in Subjects \cup {NoVideo} : HandleVideoChange(v)

\* processing the video and asking questions answered by short streams
ScenarioNext ==
    \/ ProcessCurrentVideo
    \/ \E ok \in BOOLEAN : ProcessVideoReturns(ok)
    \/ NextQuestion
    \/ \E m \in Inputs : SendMessage(m)
    \/ \E evs \in ShortStreams : StreamBegins(evs)
    \/ \E n \in 1..MaxTextLen : ReadChunk(n)
    \/ ReadDone

\* ========================================================================
\* Specifications
\* ========================================================================
\* no content script is looked at in the coordinator's specification
ContentQuiet ==
    /\ currentVideoId = NoVideo
    /\ conversationHistory = <<>>
    /\ isProcessing = FALSE
    /\ messages = <<>>
    /\ turn = IdleTurn
    /\ proc = "idle"
    /\ inflight = 0
    /\ finished = FALSE
    /\ ignoredCall = FALSE
    /\ localStore = [k \in StoreKeys |-> <<>>]
    /\ chatPanel = TRUE
    /\ discarded = FALSE
    /\ location = NoVideo

\* and no coordinator in the content script's
CoordQuiet ==
    /\ injectedTabs = {}
    /\ backendUrl = DefaultUrl
    /\ isBackendConnected = FALSE
    /\ syncStore = EmptyStore
    /\ tab = [t \in Tabs |-> LivePage]
    /\ env = [e \in Slots |-> NoEnvelope]
    /\ tog = [e \in Slots |-> NoToggle]
    /\ upd = [t \in Tabs |-> "ret"]
    /\ health = "idle"
    /\ act = [t \in Tabs |-> "idle"]
    /\ lastCheck = StartCheck(CheckOfTimer)
    /\ popup = PopupClosed

vars == <<coordVars, auxVars, contentVars>>

Init == CoordInit /\ ContentQuiet
Spec == Init /\ [][CoordNext]_vars

StreamInit == ContentInit /\ CoordQuiet
StreamSpec == StreamInit /\ [][StreamNext]_vars

HistorySpec == StreamInit /\ [][HistoryNext]_vars

SettingsSpec == Init /\ [][SettingsNext]_vars

SwitchSpec == StreamInit /\ [][SwitchNext]_vars

ScenarioSpec == StreamInit /\ [][ScenarioNext]_vars

DeliverySpec == Init /\ [][DeliveryNext]_vars

PopupSpec == Init /\ [][PopupNext]_vars

RestartSpec == Init /\ [][RestartNext]_vars

\* The fetch of a turn settles (it resolves with a stream or with another
\* body, or it rejects) and every reader.read() of its stream resolves.
StreamFairness ==
    /\ WF_vars(FetchFails \/ (\E r \in FallbackResults : FallbackReply(r))
                  \/ (\E evs \in ShortStreams : StreamBegins(evs)))
    /\ WF_vars((\E n \in 1..MaxTextLen : ReadChunk(n)) \/ ReadDone)

FairTurnSpec == StreamInit /\ [][TurnNext]_vars /\ StreamFairness

\* Storage callbacks fire, every fetch settles (it completes or its timeout
\* aborts it), the chrome.tabs.query callback fires.
CoordFairness ==
    \A e \in Slots :
        /\ WF_vars(\E o \in FetchOutcomes : EnvHealthReturns(e, o))
        /\ WF_vars(\E o \in FetchOutcomes : EnvFetchReturns(e, o))
        /\ WF_vars(EnvStorageCallback(e))
        /\ WF_vars(EnvSettingsUrlCallback(e))
        /\ WF_vars(\E o \in FetchOutcomes : EnvRecheckReturns(e, o))
        /\ WF_vars(\E a \in Tabs \cup {0} : EnvTabsQueryCallback(e, a))

FairSpec == Init /\ [][CoordNext]_vars /\ CoordFairness

\* ------------------------------------------------------------------------
\* Properties of the coordinator
\* ------------------------------------------------------------------------
Pending(e) == env[e].pc \notin {"none", "done"}
Answered(e) == env[e].resp # NoResp
IsErrorResponse(r) == "error" \in DOMAIN r

\* C1: sendResponse is invoked exactly once for every envelope: never twice,
\* and once by the time the handling of the envelope has completed; the
\* togglePanel retry does not respond again.
C1_ExactlyOneResponse ==
    \A e \in Slots :
        /\ env[e].calls <= 1
        /\ env[e].pc = "done" => env[e].calls = 1
        /\ env[e].pc = "none" => env[e].calls = 0

\* a togglePanel request whose delivery was retried, with its one response
C1_Witness ==
    \E e \in Slots :
        /\ env[e].action = "togglePanel"
        /\ tog[e].pc = "done" /\ tog[e].retries = 1
        /\ env[e].calls = 1

\* C2: every envelope being handled is eventually answered, and whenever the
\* handling of an envelope has ended the sender holds a response (the channel
\* was open when sendResponse ran).
C2_EventuallyAnswered ==
    /\ \A e \in Slots : Pending(e) ~> (env[e].pc = "done" /\ Answered(e))
    /\ [](\A e \in Slots : env[e].pc = "done" => Answered(e))

\* an envelope answered by a callback that ran after the listener returned
C2_Witness ==
    \E e \in Slots :
        /\ env[e].action \in {"getSettings", "processVideo", "updateSettings"}
        /\ env[e].pc = "done" /\ Answered(e)
        /\ IF env[e].action = "processVideo" THEN env[e].resp.success ELSE TRUE

\* C3: an envelope with an unrecognised action is answered at once with
\* {error: "Unknown action"} and the step that handles it leaves injectedTabs,
\* backendUrl and isBackendConnected as they were.
C3_UnknownAction ==
    [][\A e \in Slots :
          (env'[e] # env[e] /\ env'[e].action = UnknownAction)
          => /\ env'[e].resp = [error |-> "Unknown action"]
             /\ env'[e].calls = 1
             /\ env'[e].pc = "done"
             /\ injectedTabs' = injectedTabs
             /\ backendUrl' = backendUrl
             /\ isBackendConnected' = isBackendConnected]_vars

\* an unknown action answered in a coordinator whose state is not the initial one
C3_Witness ==
    \E e \in Slots :
        /\ env[e].action = UnknownAction
        /\ env[e].resp = [error |-> "Unknown action"]
        /\ injectedTabs # {} /\ backendUrl = AltUrl /\ isBackendConnected

\* C4: a togglePanel delivery that fails triggers exactly one re-injection
\* (one handleYouTubePageLoad call after the failure) and exactly one retry of
\* the message; a delivery that succeeds triggers none; after the retry has
\* failed the call is over.
C4_BoundedRetry ==
    \A e \in Slots :
        /\ tog[e].reinjects <= 1 /\ tog[e].retries <= 1 /\ tog[e].sends <= 2
        /\ tog[e].reinjects = (IF tog[e].firstFailed THEN 1 ELSE 0)
        /\ tog[e].retries <= tog[e].reinjects
        /\ (tog[e].pc = "done" /\ tog[e].firstFailed)
             => (tog[e].retries = 1 /\ tog[e].sends = 2)
        /\ tog[e].retryFailed => (tog[e].pc = "done" /\ tog[e].retries = 1)

\* both the first delivery and the retry failed
C4_Witness ==
    \E e \in Slots :
        /\ tog[e].pc = "done" /\ tog[e].retryFailed
        /\ tog[e].reinjects = 1 /\ tog[e].retries = 1 /\ tog[e].sends = 2

\* C5: when the first delivery and the retry both failed, the sender of
\* togglePanel holds an error response for the request.
C5_FailureSurfaced ==
    \A e \in Slots :
        (tog[e].pc = "done" /\ tog[e].retryFailed) => IsErrorResponse(env[e].resp)

\* ------------------------------------------------------------------------
\* Properties of the streaming turn
\* ------------------------------------------------------------------------
\* the whole stream has been read and the loop is about to be left
StreamRead == turn.pc = "reading" /\ turn.remaining = <<>>

RECURSIVE Flatten(_)
Flatten(ss) == IF ss = <<>> THEN <<>> ELSE Head(ss) \o Flatten(Tail(ss))

\* C6: when a stream has been read, in whatever chunks, the assembled answer
\* and the citation list are the ones the loop assembles when the same text
\* arrives as a single chunk.
C6_ChunkingInvariance ==
    StreamRead =>
        LET one == ProcessChunk(NewLoop(<<>>, NewMessageId), turn.text)
        IN /\ turn.loop.fullAnswer = one.fullAnswer
           /\ turn.loop.sources = one.sources

C8_SourcesApplied ==
    LET lp == turn.loop IN
    (/\ StreamRead
     /\ lp.finalized = "done"
     /\ Len(lp.sourcesLog) = 1
     /\ HasElement(messages, lp.messageId))
    => /\ ~messages[ElementIndex(messages, lp.messageId)].streaming
       /\ messages[ElementIndex(messages, lp.messageId)].sources = lp.sourcesLog[1]

\* C9: once a done or an error event has been dispatched, no later event of
\* the stream changes the messages in the page or the answer text of the turn.
C9_FinalizationIdempotent == ~turn.loop.changedAfterFinal

\* C10: at most one request is in flight, the flag is up while it is, and a
\* sendMessage or processCurrentVideo call made while the flag is up starts
\* no request and changes nothing.
C10_SingleInFlight ==
    /\ [](inflight <= 1 /\ (inflight = 1 <=> isProcessing))
    /\ [][(isProcessing /\ ((\E m \in Inputs : SendMessage(m)) \/ ProcessCurrentVideo))
            => UNCHANGED <<currentVideoId, conversationHistory, isProcessing,
                           messages, turn, proc, inflight, finished>>]_vars

\* a call was made while a request was in flight and returned at the guard
C10_Witness == ignoredCall /\ isProcessing /\ inflight = 1

\* ------------------------------------------------------------------------
\* Properties of the content-script lifecycle
\* ------------------------------------------------------------------------
\* a document in which the content script never ran and no panel exists
FreshDocument(p) == p.scriptable /\ ~p.loaded /\ p.panels = 0 /\ p.listeners = 0

C12_AtMostOnePanel ==
    \A t \in Tabs :
        /\ tab[t].panels <= 1
        /\ createChatPanel(tab[t]).panels = 1

\* a togglePanel message delivered to a live content script has left the tab
\* with one panel, shown
C12_Witness ==
    \E e \in Slots, t \in Tabs :
        /\ tog[e].tabId = t /\ tog[e].pc = "done" /\ ~tog[e].firstFailed
        /\ tog[e].sends = 1
        /\ tab[t].panels = 1 /\ tab[t].visible /\ tab[t].loaded

\* C13: when the handling of a completed navigation to a watch page settles
\* (tabs.onUpdated returned without starting handleYouTubePageLoad after a
\* full load, or the handleYouTubePageLoad it started has returned), the tab
\* holds exactly one panel.
C13_OneInstanceAfterNavigation ==
    [][\A t \in Tabs :
          (\/ (OnUpdated(t, TRUE, TRUE) /\ upd'[t] = "ret")
           \/ (UpdStep(t) /\ upd'[t] = "ret" /\ tab'[t].watch /\ tab'[t].scriptable))
          => tab'[t].panels = 1]_vars

\* ------------------------------------------------------------------------
\* Properties of the settings store and of the dispatch
\* ------------------------------------------------------------------------
\* C17: every step that changes the settings store is the coordinator's
\* chrome.storage.sync.set callback of an updateSettings envelope.
C17_SingleWriter ==
    [][syncStore' # syncStore
         => \E e \in Slots : EnvStorageCallback(e) \/ EnvSettingsUrlCallback(e)]_vars

\* the handler of the envelope threw
Threw(er) ==
    \/ er.action = NullRequest
    \/ er.action = "updateSettings" /\ er.settings = NoSettings

\* C18: an envelope whose handler threw is answered, once, with
\* {error: <the message of the exception>} and its handling is over.
C18_ThrowAnswered ==
    \A e \in Slots :
        (env[e].pc # "none" /\ Threw(env[e]))
        => /\ env[e].pc = "done"
           /\ env[e].calls = 1
           /\ env[e].resp = [error |-> ThrownMessage(env[e].action)]

\* an updateSettings envelope without settings, answered after the listener
\* returned
C18_Witness ==
    \E e \in Slots :
        /\ env[e].action = "updateSettings" /\ env[e].settings = NoSettings
        /\ env[e].resp = [error |-> "Error in invocation of storage.set"]

\* C19: a togglePanel envelope of a sender with a tab targets that tab; one
\* without targets the tab the chrome.tabs.query callback reports as active;
\* when it reports none the response is {success: false, error: 'No active
\* tab found'}, no toggleChatPanel call is made and no tab changes.
C19_ToggleTarget ==
    /\ [](\A e \in Slots :
            env[e].action = "togglePanel" =>
               /\ env[e].sender # Popup => tog[e].tabId = env[e].sender
               /\ env[e].resp = [success |-> FALSE, error |-> "No active tab found"]
                     => (env[e].sender = Popup /\ tog[e] = NoToggle)
               /\ (env[e].sender = Popup /\ env[e].pc = "query") => tog[e] = NoToggle)
    /\ [][\A e \in Slots :
            (env[e].pc = "query" /\ env'[e].pc = "done")
            => \/ /\ tog'[e].tabId \in Tabs /\ tog'[e].pc = "ensure"
                  /\ env'[e].resp = [success |-> TRUE]
                  /\ EnvTabsQueryCallback(e, tog'[e].tabId)
               \/ /\ tog'[e] = NoToggle /\ tab' = tab /\ injectedTabs' = injectedTabs
                  /\ env'[e].resp = [success |-> FALSE, error |-> "No active tab found"]]_vars

\* the popup's togglePanel found no active tab
C19_Witness ==
    \E e \in Slots :
        /\ env[e].action = "togglePanel" /\ env[e].sender = Popup
        /\ env[e].resp = [success |-> FALSE, error |-> "No active tab found"]
        /\ tog[e] = NoToggle

\* ------------------------------------------------------------------------
\* Malformed lines of the stream
\* ------------------------------------------------------------------------
\* a line with the prefix whose payload does not parse
IsMalformed(line) == StartsWithData(line) /\ JSONParse(Slice6(line)) = ParseFailure

RECURSIVE Join(_)
Join(lines) ==
    IF Len(lines) = 1 THEN lines[1]
    ELSE lines[1] \o <<NL>> \o Join(Tail(lines))

\* the text without its malformed lines
RemoveMalformed(text) == Join(SelectSeq(Split(text), LAMBDA l : ~IsMalformed(l)))

\* the loop over the whole text, starting from the placeholder
WholeRun(text) ==
    ProcessChunk(NewLoop(createStreamingMessage(<<>>, NewMessageId), NewMessageId), text)

\* C20: the loop run over a stream with malformed 'data: ' lines ends in the
\* state (answer, citations, messages, events applied) it ends in when those
\* lines are absent from the stream.
C20_MalformedSkipped ==
    turn.pc = "reading" => WholeRun(turn.text) = WholeRun(RemoveMalformed(turn.text))

\* a stream token A, malformed line, token B was read and shows "AB"
C20_Witness ==
    /\ StreamRead
    /\ turn.text = StreamText(<<TokenEvent("A"), MalformedItem, TokenEvent("B")>>)
    /\ turn.loop.fullAnswer = <<"A", "B">>
    /\ HasElement(messages, NewMessageId)
    /\ messages[ElementIndex(messages, NewMessageId)].text = <<"A", "B">>

\* ------------------------------------------------------------------------
\* C14: conversation round trip: a load for subject X returns exactly the
\* entries a completed turn pushed and saved for X, in append order. Stated
\* for the load a page load performs: once the document is loaded at video
\* v, the history in memory is the history stored for v by the saves.
C14_RoundTrip ==
    [][\A v \in Subjects :
          (PageLoad(v) /\ Intact(localStore, v))
              => conversationHistory' = Persisted(localStore', v)]_vars

\* ------------------------------------------------------------------------
\* C15: an append persists the full updated sequence: after a completed turn
\* on X the history stored for X is the history stored for X before the turn
\* followed by the new entry (New Chat aside, which throws the entries in
\* memory away on purpose).
C15_AppendKeepsEarlier ==
    [][\A r \in FallbackResults :
          (FallbackReply(r) /\ ~discarded /\ Intact(localStore, currentVideoId)
           /\ conversationHistory # NotASequence) =>
              LET before == Persisted(localStore, currentVideoId)
                  after == Persisted(localStore', currentVideoId)
              IN /\ Len(after) = Len(before) + 1
                 /\ SubSeq(after, 1, Len(before)) = before]_vars

\* a completed turn pushes one entry
IsPush ==
    /\ turn.pc = "fetch"
    /\ turn'.pc = "idle"
    /\ Len(conversationHistory') = Len(conversationHistory) + 1

\* ------------------------------------------------------------------------
\* C16: subject isolation: whenever the history in memory is replaced by
\* stored entries, they are the entries stored under the key of the video
\* that is current; and a step that changes the current video empties the
\* history in memory and leaves every stored history as it was.
C16_SubjectIsolation ==
    [][/\ (conversationHistory' # conversationHistory
            /\ conversationHistory' # <<>>
            /\ ~IsPush)
          => /\ currentVideoId' = currentVideoId
             /\ currentVideoId # NoVideo
             /\ conversationHistory' = Persisted(localStore, currentVideoId)
       /\ (currentVideoId' # currentVideoId)
          => /\ conversationHistory' = <<>>
             /\ localStore' = localStore]_vars

\* the video has changed from one with a stored history, and the entries in
\* memory are the ones loaded for the new video, not the other video's
C16_Witness ==
    /\ currentVideoId = "xyz789"
    /\ conversationHistory = <<[question |-> <<"q">>]>>
    /\ conversationHistory = Persisted(localStore, "xyz789")
    /\ Persisted(localStore, "abc123") # <<>>
    /\ Persisted(localStore, "abc123") # conversationHistory

\* ------------------------------------------------------------------------
\* Fallback mode
\* ------------------------------------------------------------------------
\* streams that deliver an answer: one or more token events, a sources
\* event, a done event
AnswerStreams ==
    {evs \in EventSeqs :
        /\ Len(evs) >= 3
        /\ evs[Len(evs)] = DoneEvent
        /\ evs[Len(evs) - 1].type = "sources"
        /\ \A i \in 1..(Len(evs) - 2) : evs[i].type = "token"}

\* the JSON document that carries the answer and the sources of such a stream
DocumentOf(evs) ==
    [answer |-> Flatten([i \in 1..(Len(evs) - 2) |-> evs[i].content]),
     sources |-> evs[Len(evs) - 1].content]

\* C21: when a stream of tokens, sources and done has been read, the entry
\* about to be pushed carries the answer the JSON document {answer, sources}
\* carries, and the placeholder shows what the fallback branch renders for
\* that document.
C21_FallbackEquivalence ==
    \A evs \in AnswerStreams :
        (StreamRead /\ turn.text = StreamText(evs)) =>
            /\ HistoryEntry(turn.question, turn.loop.fullAnswer)
                   = HistoryEntry(turn.question, DocumentOf(evs).answer)
            /\ messages = FallbackView(messages, turn.loop.messageId, DocumentOf(evs))

\* ------------------------------------------------------------------------
\* Failed turns
\* ------------------------------------------------------------------------
\* documents of a turn that failed: an error document, the body of a
\* response that is not ok
FailedResults == {r \in FallbackResults : "answer" \notin DOMAIN r}

\* an inline error message: an assistant message that is no placeholder
IsErrorMessage(m) ==
    /\ m.kind = "assistant"
    /\ m.id = 0
    /\ \/ m.text = <<"Sorry, I encountered an error">>
       \/ (m.text # <<>> /\ m.text[1] = "Error: ")

\* the placeholder of the turn is gone and the last message is an error message
FailedView(msgs) ==
    /\ ~HasElement(msgs, NewMessageId)
    /\ msgs # <<>>
    /\ IsErrorMessage(msgs[Len(msgs)])

\* C22: a turn that ends in the catch block, or with a fallback document of a
\* failed request, leaves the view without the turn's placeholder and with an
\* inline error message as its last message.
C22_FailedTurnShowsError ==
    [][/\ FetchFails => FailedView(messages')
       /\ \A r \in FailedResults : FallbackReply(r) => FailedView(messages')]_vars

\* ------------------------------------------------------------------------
\* C23: a load that finds a corrupt value under the key of the current video
\* leaves the history in memory empty, and a turn completed afterwards with
\* an answer appends its entry to the history in memory.
C23_CorruptLoadDegrades ==
    [][/\ (TogglePanelMessage /\ ~chatPanel /\ ~Intact(localStore, currentVideoId))
          => conversationHistory' = <<>>
       /\ \A r \in FallbackResults :
             FallbackReply(r)
                => conversationHistory'
                      = Append(conversationHistory,
                               HistoryEntry(turn.question, ResultAnswer(r)))]_vars

\* ------------------------------------------------------------------------
\* C24: clearing the history of the current video (New Chat) removes what is
\* stored for it, so that a load of it finds nothing, and leaves what is
\* stored for the other videos as it was.
C24_ClearRemovesPersisted ==
    [][(NewChat /\ currentVideoId # NoVideo) =>
          /\ localStore'[StoreKey(currentVideoId)] = <<>>
          /\ loadConversationHistory(localStore', currentVideoId, <<>>, <<>>)[1] = <<>>
          /\ \A v \in Subjects \ {currentVideoId} :
                localStore'[StoreKey(v)] = localStore[StoreKey(v)]]_vars

\* ------------------------------------------------------------------------
\* Settings
\* ------------------------------------------------------------------------
SettingKeys == {"darkMode", "autoProcess", "showSources", "backendUrl", "language"}

\* the keys whose values are strings
StringKeys == {"backendUrl", "language"}

\* the callback of an updateSettings envelope has run
SettingsWritten(e) ==
    /\ env[e].pc = "storage"
    /\ env[e].action = "updateSettings"
    /\ env'[e].pc # "storage"

\* C25: getSettings answers, for each of the five keys, with the stored value
\* when the key is stored and is not the empty string, and with the default
\* otherwise; updateSettings stores the value of every key it is given.
C25_StoredOrDefault ==
    [][\A e \in Slots :
          /\ (EnvStorageCallback(e) /\ env[e].action = "getSettings") =>
                \A k \in SettingKeys :
                    env'[e].resp.data[k] =
                        IF HasKey(syncStore, k)
                           /\ ~(k \in StringKeys /\ syncStore[k] = "")
                        THEN syncStore[k] ELSE InstallDefaults[k]
          /\ SettingsWritten(e) =>
                \A k \in DOMAIN env[e].settings : syncStore'[k] = env[e].settings[k]]_vars

\* getSettings has answered with a stored flag, a stored URL and, for the
\* language stored as the empty string, the default
C25_Witness ==
    \E e \in Slots :
        /\ env[e].action = "getSettings" /\ env[e].pc = "done"
        /\ HasKey(syncStore, "darkMode") /\ syncStore["darkMode"]
        /\ HasKey(syncStore, "backendUrl") /\ syncStore["backendUrl"] = AltUrl
        /\ HasKey(syncStore, "language") /\ syncStore["language"] = ""
        /\ env[e].resp.data = [GetSettingsDefaults(syncStore) EXCEPT
                                   !.darkMode = TRUE, !.backendUrl = AltUrl]

\* C25 as stated: getSettings answers with the stored value of every key
\* that is stored, so that every value updateSettings was given comes back.
C25_EveryStoredValue ==
    [][\A e \in Slots :
          (EnvStorageCallback(e) /\ env[e].action = "getSettings") =>
              \A k \in SettingKeys :
                  HasKey(syncStore, k) => env'[e].resp.data[k] = syncStore[k]]_vars

\* ------------------------------------------------------------------------
\* C26: once the video has changed during a streaming turn, what is left of
\* that turn (the chunks still to be read, the end of the stream) changes
\* neither the messages in the page nor the history in memory nor any stored
\* history.
C26_AbandonedTurnIgnored ==
    [][(turn.pc = "reading" /\ turn.videoId # currentVideoId /\ turn' # turn)
          => UNCHANGED <<messages, conversationHistory, localStore>>]_vars

\* ------------------------------------------------------------------------
\* Scenario: process, then ask
\* ------------------------------------------------------------------------
\* the page shows that the video was processed
Processed ==
    \E i \in 1..Len(messages) :
        messages[i] = Message(0, "system", <<"Video processed">>, <<>>, FALSE)

\* a turn on abc123 has ended whose stream ended with a done event, after
\* tokens that make a non-empty answer
AnsweredByDone ==
    /\ turn.pc = "idle"
    /\ turn.videoId = "abc123"
    /\ turn.loop.finalized = "done"
    /\ turn.loop.finalTokens = Len(turn.loop.tokenLog)
    /\ Flatten(turn.loop.tokenLog) # <<>>

ProcedureOrdered(h, h2, p, p2) ==
    /\ (h2 = "inject" /\ h # "inject") => (h = "probe" /\ p.scriptable /\ p.panels = 0)
    /\ (h2 = "css" /\ h # "css") => (h = "inject" /\ p.scriptable /\ p2.loaded)
    /\ (h = "probe" /\ h2 # "probe" /\ p.panels > 0) => (h2 = "ret" /\ p2 = p)
    /\ (h \in {"probe", "inject", "css"} /\ h2 # h /\ ~p.scriptable)
          => (h2 = "ret" /\ p2 = p)

\* C28: every call of handleYouTubePageLoad, started by tabs.onUpdated or by
\* a toggle, goes probe, script, stylesheet in this order, and the stylesheet
\* of a tab is inserted by no step other than the stylesheet step of a call.
C28_InjectionOrdered ==
    [][/\ \A t \in Tabs : ProcedureOrdered(upd[t], upd'[t], tab[t], tab'[t])
       /\ \A e \in Slots :
             (tog[e].tabId \in Tabs /\ tog'[e].tabId = tog[e].tabId) =>
                 ProcedureOrdered(tog[e].h, tog'[e].h,
                                  tab[tog[e].tabId], tab'[tog[e].tabId])
       /\ \A t \in Tabs :
             (tab'[t].css /\ ~tab[t].css) =>
                 \/ upd[t] = "css"
                 \/ \E e \in Slots : tog[e].tabId = t /\ tog[e].h = "css"]_vars

\* a call has injected the script into a page without panel and is about to
\* insert the stylesheet
C28_Witness ==
    \E t \in Tabs :
        /\ upd[t] = "css"
        /\ tab[t].loaded /\ tab[t].panels = 1 /\ tab[t].listeners = 1
        /\ ~tab[t].css

\* ------------------------------------------------------------------------
\* The membership set
\* ------------------------------------------------------------------------
\* C29: when the handleYouTubePageLoad that tabs.onUpdated started for a tab
\* ends because its probe or its executeScript was rejected, the tab is not
\* in injectedTabs.
C29_FailedTabNotMember ==
    [][\A t \in Tabs :
          (UpdStep(t) /\ upd[t] \in {"probe", "inject"} /\ ~tab[t].scriptable)
              => t \notin injectedTabs']_vars

\* C30: after every step the tabs in injectedTabs are on a matching page, so
\* a closed tab and a tab whose last update reported another URL are not in
\* it; an update that completes on a matching page for a tab outside the set
\* starts the probe, a probe that finds no panel is followed by executeScript,
\* and an accepted executeScript by the stylesheet.
C30_EvictedAndProbedAgain ==
    [][\A t \in Tabs :
          /\ t \in injectedTabs' => tab'[t].watch
          /\ tab'[t] = BlockedPage => t \notin injectedTabs'
          /\ (t \notin injectedTabs /\ \E full \in BOOLEAN : OnUpdated(t, TRUE, full))
                => (upd'[t] = "probe" /\ t \in injectedTabs')
          /\ (UpdStep(t) /\ upd[t] = "probe" /\ tab[t].scriptable /\ tab[t].panels = 0)
                => upd'[t] = "inject"
          /\ (UpdStep(t) /\ upd[t] = "inject" /\ tab[t].scriptable)
                => (upd'[t] = "css" /\ tab'[t].loaded)]_vars

\* a tab that entered the set with an update was closed while its
\* handleYouTubePageLoad was still running, and is out of the set
C30_Witness ==
    \E t \in Tabs :
        /\ tab[t] = BlockedPage
        /\ upd[t] # "ret"
        /\ t \notin injectedTabs

\* ------------------------------------------------------------------------
\* Delivery to the content script
\* ------------------------------------------------------------------------
\* C31: when handleTabActivation sends tabActivated to a tab that accepts
\* scripts, a content script is listening in the tab.
C31_PresentBeforeDelivery ==
    [][\A t \in Tabs :
          (act[t] = "health" /\ act'[t] = "send" /\ tab[t].scriptable)
              => HasReceiver(tab[t])]_vars

\* ------------------------------------------------------------------------
\* Video change inside the page
\* ------------------------------------------------------------------------
\* C32 (amended): handleVideoChange on a watch page of video v leaves
\* currentVideoId = v; when v differs from the id before, the history and the
\* message list are empty after it; the panel flag, the page's panels and
\* listeners and the coordinator are as before.
C32_ResetOnVideoChange ==
    [][\A v \in Subjects :
          HandleVideoChange(v) =>
              /\ currentVideoId' = v
              /\ (v # currentVideoId =>
                     conversationHistory' = <<>> /\ messages' = <<>>)
              /\ chatPanel' = chatPanel
              /\ tab' = tab /\ injectedTabs' = injectedTabs /\ upd' = upd]_vars

\* the page is at xyz789 while a turn asked on another video is still
\* running: the id was replaced by handleVideoChange, history and list are empty
C32_Witness ==
    /\ currentVideoId = "xyz789" /\ location = "xyz789"
    /\ turn.pc # "idle" /\ turn.videoId \in VideoIds
    /\ conversationHistory = <<>> /\ messages = <<>>
    /\ chatPanel

\* C32 (as stated): the active video id is the one of the page's URL
C32_IdFollowsLocation == currentVideoId = location

\* ------------------------------------------------------------------------
\* updateSettings and the health check it starts
\* ------------------------------------------------------------------------
\* C33: while the health check started by an updateSettings envelope is in
\* flight, the envelope has been answered.
C33_AnsweredBeforeRecheck ==
    \A e \in Slots : env[e].pc = "recheck" => env[e].calls >= 1

C35_TurnTerminates ==
    (turn.pc # "idle") ~> (turn.pc = "idle" /\ ~isProcessing)

\* a turn whose stream ended without a done event is over and the flag is
\* cleared
C35_Witness ==
    /\ turn.pc = "idle" /\ turn.question # <<>>
    /\ turn.text # <<>> /\ turn.loop.finalized = "no"
    /\ ~isProcessing /\ finished

\* ------------------------------------------------------------------------
\* The popup's toggles
\* ------------------------------------------------------------------------
\* the popup's value of the toggled setting is the stored one (the default
\* when nothing is stored)
PopupAgrees(pp, store) ==
    pp.settings[pp.key] = GetSettingsData(store)[pp.key]

\* C36: when a toggleSetting call whose write failed completes (its send
\* rejected, or the coordinator answered with an error response), the
\* popup's value of the setting, which the call had flipped away from the
\* value in chrome.storage.sync, is that value again.
C36_FailedWriteReverted ==
    [][/\ (PopupCatch /\ ~PopupAgrees(popup, syncStore))
           => PopupAgrees(popup', syncStore')
       /\ (PopupAwaitResolves /\ IsErrorResponse(env[popup.slot].resp)
             /\ ~PopupAgrees(popup, syncStore))
           => PopupAgrees(popup', syncStore')]_vars

\* ------------------------------------------------------------------------
\* Overlapping health checks
\* ------------------------------------------------------------------------
\* a checkBackendConnection is awaiting its fetch
CheckInFlight ==
    \/ health = "fetch"
    \/ \E e \in Slots : env[e].pc \in {"health", "recheck"}
    \/ \E t \in Tabs : act[t] = "health"

\* C37: when no health check is in flight, isBackendConnected is the outcome
\* of the check that was started last.
C37_LatestCheckWins ==
    ~CheckInFlight => (isBackendConnected = (lastCheck.ok = "ok"))

\* ------------------------------------------------------------------------
\* The backend URL across restarts
\* ------------------------------------------------------------------------
\* C38: after the coordinator was started again, the URL it sends its
\* requests to is the stored backendUrl, or the default when none is stored.
C38_UrlFollowsStore ==
    [][Restart => backendUrl' = GetSettingsData(syncStore').backendUrl]_vars

\* ------------------------------------------------------------------------
\* History entries of failed turns
\* ------------------------------------------------------------------------
\* C39: a turn that ends with an error fallback response or with a rejected
\* fetch adds no entry to conversationHistory and writes nothing to
\* localStorage.
C39_FailedTurnNotRecorded ==
    [][/\ FetchFails => UNCHANGED <<conversationHistory, localStore>>
       /\ \A r \in FallbackResults :
             ("error" \in DOMAIN r /\ FallbackReply(r))
                 => UNCHANGED <<conversationHistory, localStore>>]_vars

\* ------------------------------------------------------------------------
\* Concurrent injection procedures
\* ------------------------------------------------------------------------
\* a handleYouTubePageLoad call on tab t, of tabs.onUpdated or of a toggle,
\* takes its executeScript(content.js) step
InjectStep(t) ==
    \/ UpdStep(t) /\ upd[t] = "inject"
    \/ \E e \in Slots :
          ToggleHyplStep(e) /\ tog[e].tabId = t /\ tog[e].h = "inject"

\* C40: an executeScript step of an injection procedure on a tab that
\* accepts scripts leaves one listener and at most one panel, and changes
\* neither when content.js already ran in the document (another procedure,
\* whose probe also saw no panel, injected first); a togglePanel message that
\* is delivered reaches one listener and is applied once.
C40_ConcurrentInjectionOnce ==
    [][\A t \in Tabs :
          /\ (InjectStep(t) /\ tab[t].scriptable) =>
                /\ tab'[t].listeners = 1 /\ tab'[t].panels <= 1
                /\ tab[t].loaded =>
                      /\ tab'[t].listeners = tab[t].listeners
                      /\ tab'[t].panels = tab[t].panels
          /\ \A e \in Slots :
                ((ToggleFirstCallback(e) \/ ToggleRetryCallback(e))
                   /\ tog[e].tabId = t /\ HasReceiver(tab[t])) =>
                    /\ tab[t].listeners = 1
                    /\ tab'[t] = ContentTogglePanel(tab[t])]_vars

\* the call of tabs.onUpdated and the call of a toggle both found no panel
\* on the tab and both executed content.js: one listener, one panel
C40_Witness ==
    \E e \in Slots, t \in Tabs :
        /\ upd[t] = "css"
        /\ tog[e].tabId = t /\ tog[e].pc = "ensureLoad" /\ tog[e].h = "css"
        /\ tab[t].loaded /\ tab[t].listeners = 1 /\ tab[t].panels = 1

====
